---- MODULE Spec2Model ----
(***************************************************************************)
(* The caching service workers of the Ravan Fashion theme:                 *)
(*   src/assets/optimized/service-worker-optimized.js  (script "optimized")*)
(*   src/assets/ravan-fashion-service-worker.js        (script "legacy")   *)
(* and the page script that registers and queries the worker:              *)
(*   src/assets/optimized/service-worker-registration-optimized.js         *)
(* The browser's CacheStorage, the network and the clock are the           *)
(* environment.  Requests are GET requests.                                *)
(*                                                                         *)
(* Strings that the code takes apart (includes, startsWith, endsWith,      *)
(* new URL(...)) are tuples of characters; the state holds the string      *)
(* itself and Chars gives its characters.                                  *)
(***************************************************************************)
EXTENDS Integers, Sequences, FiniteSets, TLC, Bags

(* ---------------------------------------------------------------------- *)
(* Bounds of the model                                                     *)
(* ---------------------------------------------------------------------- *)
\* fetch events dispatched to the worker in one behaviour
MaxRequests == 2
\* advances of the clock in one behaviour
MaxTicks == 1
\* control messages handled in one behaviour
MaxMessages == 2
\* events of the environment (fetch events, messages, clock advances) in one behaviour
MaxEvents == 3
\* registrations of the origin when the page loads
MaxRegistrations == 2
\* calls of getCacheStats by the page in one behaviour
MaxStatsCalls == 2

(* ---------------------------------------------------------------------- *)
(* Strings                                                                 *)
(* ---------------------------------------------------------------------- *)
Chars(s) ==
  CASE s = "ravan-fashion-static-v1" -> <<"r", "a", "v", "a", "n", "-", "f", "a", "s", "h", "i", "o", "n", "-", "s", "t", "a", "t", "i", "c", "-", "v", "1">>
    [] s = "ravan-fashion-images-v1" -> <<"r", "a", "v", "a", "n", "-", "f", "a", "s", "h", "i", "o", "n", "-", "i", "m", "a", "g", "e", "s", "-", "v", "1">>
    [] s = "ravan-fashion-pages-v1" -> <<"r", "a", "v", "a", "n", "-", "f", "a", "s", "h", "i", "o", "n", "-", "p", "a", "g", "e", "s", "-", "v", "1">>
    [] s = "ravan-fashion-api-v1" -> <<"r", "a", "v", "a", "n", "-", "f", "a", "s", "h", "i", "o", "n", "-", "a", "p", "i", "-", "v", "1">>
    [] s = "ravan-fashion-runtime-v1" -> <<"r", "a", "v", "a", "n", "-", "f", "a", "s", "h", "i", "o", "n", "-", "r", "u", "n", "t", "i", "m", "e", "-", "v", "1">>
    [] s = "ravan-fashion-cache-v1" -> <<"r", "a", "v", "a", "n", "-", "f", "a", "s", "h", "i", "o", "n", "-", "c", "a", "c", "h", "e", "-", "v", "1">>
    [] s = "ravan-fashion-critical-v1" -> <<"r", "a", "v", "a", "n", "-", "f", "a", "s", "h", "i", "o", "n", "-", "c", "r", "i", "t", "i", "c", "a", "l", "-", "v", "1">>
    [] s = "ravan-fashion-fonts-v1" -> <<"r", "a", "v", "a", "n", "-", "f", "a", "s", "h", "i", "o", "n", "-", "f", "o", "n", "t", "s", "-", "v", "1">>
    [] s = "ravan-fashion-static-v0" -> <<"r", "a", "v", "a", "n", "-", "f", "a", "s", "h", "i", "o", "n", "-", "s", "t", "a", "t", "i", "c", "-", "v", "0">>
    [] s = "third-party-cache" -> <<"t", "h", "i", "r", "d", "-", "p", "a", "r", "t", "y", "-", "c", "a", "c", "h", "e">>
    [] s = "ravan-fashion-" -> <<"r", "a", "v", "a", "n", "-", "f", "a", "s", "h", "i", "o", "n", "-">>
    [] s = "-v1" -> <<"-", "v", "1">>
    [] s = "https://shop.example" -> <<"h", "t", "t", "p", "s", ":", "/", "/", "s", "h", "o", "p", ".", "e", "x", "a", "m", "p", "l", "e">>
    [] s = "/assets/optimized/ravan-fashion-critical.css" -> <<"/", "a", "s", "s", "e", "t", "s", "/", "o", "p", "t", "i", "m", "i", "z", "e", "d", "/", "r", "a", "v", "a", "n", "-", "f", "a", "s", "h", "i", "o", "n", "-", "c", "r", "i", "t", "i", "c", "a", "l", ".", "c", "s", "s">>
    [] s = "/assets/optimized/resource-loader-optimized.js" -> <<"/", "a", "s", "s", "e", "t", "s", "/", "o", "p", "t", "i", "m", "i", "z", "e", "d", "/", "r", "e", "s", "o", "u", "r", "c", "e", "-", "l", "o", "a", "d", "e", "r", "-", "o", "p", "t", "i", "m", "i", "z", "e", "d", ".", "j", "s">>
    [] s = "/assets/optimized/image-loader-optimized.js" -> <<"/", "a", "s", "s", "e", "t", "s", "/", "o", "p", "t", "i", "m", "i", "z", "e", "d", "/", "i", "m", "a", "g", "e", "-", "l", "o", "a", "d", "e", "r", "-", "o", "p", "t", "i", "m", "i", "z", "e", "d", ".", "j", "s">>
    [] s = "https://fonts.gstatic.com/s/notosanstamil/v15/nEKhbZ7WJw0q8sY7zBm2m3q0uA.woff2" -> <<"h", "t", "t", "p", "s", ":", "/", "/", "f", "o", "n", "t", "s", ".", "g", "s", "t", "a", "t", "i", "c", ".", "c", "o", "m", "/", "s", "/", "n", "o", "t", "o", "s", "a", "n", "s", "t", "a", "m", "i", "l", "/", "v", "1", "5", "/", "n", "E", "K", "h", "b", "Z", "7", "W", "J", "w", "0", "q", "8", "s", "Y", "7", "z", "B", "m", "2", "m", "3", "q", "0", "u", "A", ".", "w", "o", "f", "f", "2">>
    [] s = "/assets/placeholder.svg" -> <<"/", "a", "s", "s", "e", "t", "s", "/", "p", "l", "a", "c", "e", "h", "o", "l", "d", "e", "r", ".", "s", "v", "g">>
    [] s = "/offline.html" -> <<"/", "o", "f", "f", "l", "i", "n", "e", ".", "h", "t", "m", "l">>
    [] s = "/assets/ravan-fashion-critical.css" -> <<"/", "a", "s", "s", "e", "t", "s", "/", "r", "a", "v", "a", "n", "-", "f", "a", "s", "h", "i", "o", "n", "-", "c", "r", "i", "t", "i", "c", "a", "l", ".", "c", "s", "s">>
    [] s = "/assets/ravan-fashion-optimized.js" -> <<"/", "a", "s", "s", "e", "t", "s", "/", "r", "a", "v", "a", "n", "-", "f", "a", "s", "h", "i", "o", "n", "-", "o", "p", "t", "i", "m", "i", "z", "e", "d", ".", "j", "s">>
    [] s = "/assets/section-cultural-spotlight.css" -> <<"/", "a", "s", "s", "e", "t", "s", "/", "s", "e", "c", "t", "i", "o", "n", "-", "c", "u", "l", "t", "u", "r", "a", "l", "-", "s", "p", "o", "t", "l", "i", "g", "h", "t", ".", "c", "s", "s">>
    [] s = "/assets/section-cultural-product-details.css" -> <<"/", "a", "s", "s", "e", "t", "s", "/", "s", "e", "c", "t", "i", "o", "n", "-", "c", "u", "l", "t", "u", "r", "a", "l", "-", "p", "r", "o", "d", "u", "c", "t", "-", "d", "e", "t", "a", "i", "l", "s", ".", "c", "s", "s">>
    [] s = "/assets/section-design-story.css" -> <<"/", "a", "s", "s", "e", "t", "s", "/", "s", "e", "c", "t", "i", "o", "n", "-", "d", "e", "s", "i", "g", "n", "-", "s", "t", "o", "r", "y", ".", "c", "s", "s">>
    [] s = "https://fonts.googleapis.com/css2?family=Tamil+Sangam+MN&family=Noto+Sans+Tamil&display=swap" -> <<"h", "t", "t", "p", "s", ":", "/", "/", "f", "o", "n", "t", "s", ".", "g", "o", "o", "g", "l", "e", "a", "p", "i", "s", ".", "c", "o", "m", "/", "c", "s", "s", "2", "?", "f", "a", "m", "i", "l", "y", "=", "T", "a", "m", "i", "l", "+", "S", "a", "n", "g", "a", "m", "+", "M", "N", "&", "f", "a", "m", "i", "l", "y", "=", "N", "o", "t", "o", "+", "S", "a", "n", "s", "+", "T", "a", "m", "i", "l", "&", "d", "i", "s", "p", "l", "a", "y", "=", "s", "w", "a", "p">>
    [] s = "/files/kolam-pattern.svg" -> <<"/", "f", "i", "l", "e", "s", "/", "k", "o", "l", "a", "m", "-", "p", "a", "t", "t", "e", "r", "n", ".", "s", "v", "g">>
    [] s = "/files/temple-arch.svg" -> <<"/", "f", "i", "l", "e", "s", "/", "t", "e", "m", "p", "l", "e", "-", "a", "r", "c", "h", ".", "s", "v", "g">>
    [] s = "/files/silk-texture.jpg" -> <<"/", "f", "i", "l", "e", "s", "/", "s", "i", "l", "k", "-", "t", "e", "x", "t", "u", "r", "e", ".", "j", "p", "g">>
    [] s = "/assets/app.css" -> <<"/", "a", "s", "s", "e", "t", "s", "/", "a", "p", "p", ".", "c", "s", "s">>
    [] s = "/assets/product-images.js" -> <<"/", "a", "s", "s", "e", "t", "s", "/", "p", "r", "o", "d", "u", "c", "t", "-", "i", "m", "a", "g", "e", "s", ".", "j", "s">>
    [] s = "/files/hero.png" -> <<"/", "f", "i", "l", "e", "s", "/", "h", "e", "r", "o", ".", "p", "n", "g">>
    [] s = "/api/cart" -> <<"/", "a", "p", "i", "/", "c", "a", "r", "t">>
    [] s = "/collections/all" -> <<"/", "c", "o", "l", "l", "e", "c", "t", "i", "o", "n", "s", "/", "a", "l", "l">>
    [] s = "/search" -> <<"/", "s", "e", "a", "r", "c", "h">>
    [] s = "/data/feed.json" -> <<"/", "d", "a", "t", "a", "/", "f", "e", "e", "d", ".", "j", "s", "o", "n">>
    [] s = "static" -> <<"s", "t", "a", "t", "i", "c">>
    [] s = "images" -> <<"i", "m", "a", "g", "e", "s">>
    [] s = "pages" -> <<"p", "a", "g", "e", "s">>
    [] s = "api" -> <<"a", "p", "i">>
    [] s = ".css" -> <<".", "c", "s", "s">>
    [] s = ".js" -> <<".", "j", "s">>
    [] s = ".woff" -> <<".", "w", "o", "f", "f">>
    [] s = ".woff2" -> <<".", "w", "o", "f", "f", "2">>
    [] s = ".ttf" -> <<".", "t", "t", "f">>
    [] s = ".eot" -> <<".", "e", "o", "t">>
    [] s = "assets/optimized/" -> <<"a", "s", "s", "e", "t", "s", "/", "o", "p", "t", "i", "m", "i", "z", "e", "d", "/">>
    [] s = ".jpg" -> <<".", "j", "p", "g">>
    [] s = ".jpeg" -> <<".", "j", "p", "e", "g">>
    [] s = ".png" -> <<".", "p", "n", "g">>
    [] s = ".gif" -> <<".", "g", "i", "f">>
    [] s = ".webp" -> <<".", "w", "e", "b", "p">>
    [] s = ".svg" -> <<".", "s", "v", "g">>
    [] s = "/api/" -> <<"/", "a", "p", "i", "/">>
    [] s = "/cart/" -> <<"/", "c", "a", "r", "t", "/">>
    [] s = "text/html" -> <<"t", "e", "x", "t", "/", "h", "t", "m", "l">>
    [] s = "*/*" -> <<"*", "/", "*">>
    [] s = "://" -> <<":", "/", "/">>
    [] s = "/" -> <<"/">>
    [] s = "?" -> <<"?">>
    [] s = "&" -> <<"&">>
    [] s = "=" -> <<"=">>
    [] s = "width" -> <<"w", "i", "d", "t", "h">>
    [] s = "height" -> <<"h", "e", "i", "g", "h", "t">>
    [] s = "/products/shirt?width=300" -> <<"/", "p", "r", "o", "d", "u", "c", "t", "s", "/", "s", "h", "i", "r", "t", "?", "w", "i", "d", "t", "h", "=", "3", "0", "0">>
    [] s = "/api/client.js" -> <<"/", "a", "p", "i", "/", "c", "l", "i", "e", "n", "t", ".", "j", "s">>
    [] s = "/assets/optimized/banner.png" -> <<"/", "a", "s", "s", "e", "t", "s", "/", "o", "p", "t", "i", "m", "i", "z", "e", "d", "/", "b", "a", "n", "n", "e", "r", ".", "p", "n", "g">>
    [] s = "/cart/items" -> <<"/", "c", "a", "r", "t", "/", "i", "t", "e", "m", "s">>
    [] s = "/cart" -> <<"/", "c", "a", "r", "t">>
    [] s = "/files/Banner.PNG" -> <<"/", "f", "i", "l", "e", "s", "/", "B", "a", "n", "n", "e", "r", ".", "P", "N", "G">>
    [] s = "/about" -> <<"/", "a", "b", "o", "u", "t">>
    [] s = "/search?q=silk" -> <<"/", "s", "e", "a", "r", "c", "h", "?", "q", "=", "s", "i", "l", "k">>
    [] s = "text/html,application/xhtml+xml" -> <<"t", "e", "x", "t", "/", "h", "t", "m", "l", ",", "a", "p", "p", "l", "i", "c", "a", "t", "i", "o", "n", "/", "x", "h", "t", "m", "l", "+", "x", "m", "l">>
    [] s = "/assets/" -> <<"/", "a", "s", "s", "e", "t", "s", "/">>
    [] s = "/files/" -> <<"/", "f", "i", "l", "e", "s", "/">>
    [] s = "cdn.shopify.com" -> <<"c", "d", "n", ".", "s", "h", "o", "p", "i", "f", "y", ".", "c", "o", "m">>
    [] s = "fonts.googleapis.com" -> <<"f", "o", "n", "t", "s", ".", "g", "o", "o", "g", "l", "e", "a", "p", "i", "s", ".", "c", "o", "m">>
    [] s = "fonts.gstatic.com" -> <<"f", "o", "n", "t", "s", ".", "g", "s", "t", "a", "t", "i", "c", ".", "c", "o", "m">>
    [] s = "kolam" -> <<"k", "o", "l", "a", "m">>
    [] s = "temple" -> <<"t", "e", "m", "p", "l", "e">>
    [] s = "http" -> <<"h", "t", "t", "p">>
    [] s = "service-worker-optimized.js" -> <<"s", "e", "r", "v", "i", "c", "e", "-", "w", "o", "r", "k", "e", "r", "-", "o", "p", "t", "i", "m", "i", "z", "e", "d", ".", "j", "s">>
    [] s = "https://shop.example/assets/optimized/service-worker-optimized.js" -> <<"h", "t", "t", "p", "s", ":", "/", "/", "s", "h", "o", "p", ".", "e", "x", "a", "m", "p", "l", "e", "/", "a", "s", "s", "e", "t", "s", "/", "o", "p", "t", "i", "m", "i", "z", "e", "d", "/", "s", "e", "r", "v", "i", "c", "e", "-", "w", "o", "r", "k", "e", "r", "-", "o", "p", "t", "i", "m", "i", "z", "e", "d", ".", "j", "s">>
    [] s = "https://shop.example/assets/ravan-fashion-service-worker.js" -> <<"h", "t", "t", "p", "s", ":", "/", "/", "s", "h", "o", "p", ".", "e", "x", "a", "m", "p", "l", "e", "/", "a", "s", "s", "e", "t", "s", "/", "r", "a", "v", "a", "n", "-", "f", "a", "s", "h", "i", "o", "n", "-", "s", "e", "r", "v", "i", "c", "e", "-", "w", "o", "r", "k", "e", "r", ".", "j", "s">>

\* String.prototype.startsWith
StartsWith(s, p) ==
  /\ Len(p) <= Len(s)
  /\ SubSeq(s, 1, Len(p)) = p

\* String.prototype.endsWith
EndsWith(s, p) ==
  /\ Len(p) <= Len(s)
  /\ SubSeq(s, Len(s) - Len(p) + 1, Len(s)) = p

\* String.prototype.includes
Includes(s, p) ==
  \E i \in 1..(Len(s) - Len(p) + 1) : SubSeq(s, i, i + Len(p) - 1) = p

\* first index of p in s at or after position from, 0 when there is none
IndexOf(s, p, from) ==
  LET hits == {i \in from..(Len(s) - Len(p) + 1) : SubSeq(s, i, i + Len(p) - 1) = p}
  IN  IF hits = {} THEN 0 ELSE CHOOSE i \in hits : \A j \in hits : i <= j

\* String.prototype.toLowerCase, on the letters the URLs of the model use
LowerChar(c) ==
  CASE c = "E" -> "e" [] c = "K" -> "k" [] c = "Z" -> "z" [] c = "W" -> "w"
    [] c = "J" -> "j" [] c = "Y" -> "y" [] c = "B" -> "b" [] c = "A" -> "a"
    [] c = "P" -> "p" [] c = "N" -> "n" [] c = "G" -> "g"
    [] OTHER -> c

ToLowerCase(s) == [i \in 1..Len(s) |-> LowerChar(s[i])]

(* ---------------------------------------------------------------------- *)
(* URLs and requests                                                       *)
(* ---------------------------------------------------------------------- *)
\* the origin the worker is registered on; relative URLs resolve against it
Origin == "https://shop.example"

\* request.url / response.url: the absolute URL
Href(u) == IF StartsWith(Chars(u), Chars("/")) THEN Chars(Origin) \o Chars(u) ELSE Chars(u)

\* new URL(href).pathname: from the first "/" after the scheme to the "?"
Pathname(u) ==
  LET h == Href(u)
      a == IndexOf(h, Chars("://"), 1) + 3
      p == IndexOf(h, Chars("/"), a)
      q == IndexOf(h, Chars("?"), 1)
  IN  IF p = 0 THEN Chars("/")
      ELSE SubSeq(h, p, IF q = 0 THEN Len(h) ELSE q - 1)

\* new URL(href).search without its "?"
Search(u) ==
  LET h == Href(u)
      q == IndexOf(h, Chars("?"), 1)
  IN  IF q = 0 THEN << >> ELSE SubSeq(h, q + 1, Len(h))

\* the parameter names of a query string: each runs from the start of the string
\* or an "&" to the next "=" or "&"
ParamNames(s) ==
  LET starts == {1} \cup {k + 1 : k \in {j \in 1..Len(s) : s[j] = "&"}}
      stop(i) == CHOOSE j \in i..(Len(s) + 1) :
                   /\ j = Len(s) + 1 \/ s[j] \in {"=", "&"}
                   /\ \A k \in i..(j - 1) : s[k] \notin {"=", "&"}
  IN  {SubSeq(s, i, stop(i) - 1) : i \in {k \in starts : k <= Len(s)}}

\* url.searchParams.has(name)
SearchParamsHas(u, name) == Chars(name) \in ParamNames(Search(u))

\* getPrecacheUrls
precacheUrls ==
  << "/assets/optimized/ravan-fashion-critical.css",
     "/assets/optimized/resource-loader-optimized.js",
     "/assets/optimized/image-loader-optimized.js",
     "https://fonts.gstatic.com/s/notosanstamil/v15/nEKhbZ7WJw0q8sY7zBm2m3q0uA.woff2",
     "/assets/placeholder.svg",
     "/offline.html" >>

PrecacheSet == {precacheUrls[i] : i \in 1..Len(precacheUrls)}

\* the requests the pages of the model issue: one or two of each resource class
Requests ==
  { [url |-> "/assets/app.css",           mode |-> "no-cors",  accept |-> "*/*"],
    [url |-> "/assets/product-images.js", mode |-> "no-cors",  accept |-> "*/*"],
    [url |-> "/files/hero.png",           mode |-> "no-cors",  accept |-> "*/*"],
    [url |-> "/api/cart",                 mode |-> "cors",     accept |-> "*/*"],
    [url |-> "/search",                   mode |-> "navigate", accept |-> "text/html"],
    [url |-> "/collections/all",          mode |-> "navigate", accept |-> "text/html"],
    [url |-> "/data/feed.json",           mode |-> "cors",     accept |-> "*/*"] }

RequestUrls == {r.url : r \in Requests}

\* CRITICAL_ASSETS and CULTURAL_IMAGES of ravan-fashion-service-worker.js
CRITICAL_ASSETS ==
  { "/assets/ravan-fashion-critical.css",
    "/assets/ravan-fashion-optimized.js",
    "/assets/section-cultural-spotlight.css",
    "/assets/section-cultural-product-details.css",
    "/assets/section-design-story.css",
    "https://fonts.googleapis.com/css2?family=Tamil+Sangam+MN&family=Noto+Sans+Tamil&display=swap" }

CULTURAL_IMAGES ==
  { "/files/kolam-pattern.svg", "/files/temple-arch.svg", "/files/silk-texture.jpg" }

\* every URL a cache of the model can hold
Urls == RequestUrls \cup PrecacheSet \cup CRITICAL_ASSETS \cup CULTURAL_IMAGES

(* ---------------------------------------------------------------------- *)
(* Cache names and expiry (service-worker-optimized.js)                    *)
(* ---------------------------------------------------------------------- *)
STATIC  == "ravan-fashion-static-v1"
IMAGES  == "ravan-fashion-images-v1"
PAGES   == "ravan-fashion-pages-v1"
API     == "ravan-fashion-api-v1"
RUNTIME == "ravan-fashion-runtime-v1"

\* Object.values(RAVAN_FASHION_CACHE)
currentCaches == {STATIC, IMAGES, PAGES, API, RUNTIME}

\* CACHE_EXPIRY.  The code counts milliseconds in doubles; the model counts whole
\* seconds (every value below is the code's divided by 1000) and stays in TLC's integers
EXPIRY_STATIC  == 7 * 24 * 60 * 60
EXPIRY_IMAGES  == 30 * 24 * 60 * 60
EXPIRY_PAGES   == 24 * 60 * 60
EXPIRY_API     == 60 * 60
EXPIRY_RUNTIME == 60 * 60

(* ---------------------------------------------------------------------- *)
(* Cache names (ravan-fashion-service-worker.js)                           *)
(* ---------------------------------------------------------------------- *)
RAVAN_FASHION_CACHE == "ravan-fashion-cache-v1"
CRITICAL_CACHE      == "ravan-fashion-critical-v1"
IMAGE_CACHE         == "ravan-fashion-images-v1"
FONT_CACHE          == "ravan-fashion-fonts-v1"

legacyCaches == {RAVAN_FASHION_CACHE, CRITICAL_CACHE, IMAGE_CACHE, FONT_CACHE}

\* caches a prior deployment or another script of the origin may have left
PriorCaches == {"ravan-fashion-static-v0", "third-party-cache"}

CacheNames == currentCaches \cup legacyCaches \cup PriorCaches

(* ---------------------------------------------------------------------- *)
(* Request classification (service-worker-optimized.js)                    *)
(* ---------------------------------------------------------------------- *)
staticExtensions == {".css", ".js", ".woff", ".woff2", ".ttf", ".eot"}
imageExtensions  == {".jpg", ".jpeg", ".png", ".gif", ".webp", ".svg"}

isStaticAsset(request) ==
  LET pathname == ToLowerCase(Pathname(request.url))
  IN  \/ \E ext \in staticExtensions : EndsWith(pathname, Chars(ext))
      \/ Includes(pathname, Chars("assets/optimized/"))

isImageRequest(request) ==
  LET pathname == ToLowerCase(Pathname(request.url))
  IN  \/ \E ext \in imageExtensions : EndsWith(pathname, Chars(ext))
      \/ SearchParamsHas(request.url, "width")
      \/ SearchParamsHas(request.url, "height")

isAPIRequest(request) ==
  LET pathname == Pathname(request.url)
  IN  \/ Includes(pathname, Chars("/api/"))
      \/ Includes(pathname, Chars("/cart/"))
      \/ Includes(pathname, Chars("/search"))

\* request.headers.get('accept') of a request without an Accept header: null
NoAccept == ""

isPageRequest(request) ==
  \/ request.mode = "navigate"
  \/ request.accept # NoAccept /\ Includes(Chars(request.accept), Chars("text/html"))

\* Classify with the page test ahead of the API test
Classify_PageBeforeApi(request) ==
  IF isStaticAsset(request) THEN "static"
  ELSE IF isImageRequest(request) THEN "image"
  ELSE IF isPageRequest(request) THEN "page"
  ELSE IF isAPIRequest(request) THEN "api"
  ELSE "other"

\* the branch OptimizedServiceWorker.fetch takes
Classify(request) ==
  IF isStaticAsset(request) THEN "static"
  ELSE IF isImageRequest(request) THEN "image"
  ELSE IF isAPIRequest(request) THEN "api"
  ELSE IF isPageRequest(request) THEN "page"
  ELSE "other"

\* handleStaticAsset .. handleGenericRequest: the strategy and the named cache
StrategyOf(class) ==
  CASE class = "static" -> "cacheFirst"
    [] class = "image"  -> "cacheFirst"
    [] class = "api"    -> "networkFirst"
    [] class = "page"   -> "staleWhileRevalidate"
    [] OTHER            -> "networkFirst"

\* CacheOf with the API class sharing the runtime cache
CacheOf_ApiInRuntime(class) ==
  CASE class = "static" -> STATIC
    [] class = "image"  -> IMAGES
    [] class = "page"   -> PAGES
    [] OTHER            -> RUNTIME

CacheOf(class) ==
  CASE class = "static" -> STATIC
    [] class = "image"  -> IMAGES
    [] class = "api"    -> API
    [] class = "page"   -> PAGES
    [] OTHER            -> RUNTIME

\* classification is a function of the request alone; evaluated once
ClassTable == [r \in Requests |-> Classify(r)]

\* requests that meet none, one or several of the predicates: every URL below with
\* every request mode and Accept header
ClassifyUrls ==
  RequestUrls \cup
  { "/api/client.js", "/assets/optimized/banner.png", "/cart/items", "/cart",
    "/files/Banner.PNG", "/about", "/search?q=silk", "/products/shirt?width=300" }

ClassifyRequests ==
  [url : ClassifyUrls, mode : {"navigate", "cors", "no-cors"},
   accept : {"text/html,application/xhtml+xml", "*/*", NoAccept}]

(* ---------------------------------------------------------------------- *)
(* Responses                                                               *)
(* ---------------------------------------------------------------------- *)
\* a response without a Date header
NoDate == -1

\* what a promise resolves to when the code hands back `undefined`
Undefined == [type |-> "undefined"]

\* a response the network produced for fetch number body: status, Date header
NetworkResponse(u, status, date, body) ==
  [type |-> "response", url |-> u, status |-> status, date |-> date, body |-> body]

\* new Response('Offline', {status: 503, ...})
OfflinePlaceholder ==
  [type |-> "response", url |-> "", status |-> 503, date |-> NoDate, body |-> 0]

\* response.ok
Ok(response) == response.status >= 200 /\ response.status <= 299

IsResponse(v) == v.type = "response"

\* the expiry isCacheExpired picks: by the substrings of response.url
ExpiryByUrl(u) ==
  LET url == Href(u)
  IN  IF Includes(url, Chars("static")) THEN EXPIRY_STATIC
      ELSE IF Includes(url, Chars("images")) THEN EXPIRY_IMAGES
      ELSE IF Includes(url, Chars("pages")) THEN EXPIRY_PAGES
      ELSE IF Includes(url, Chars("api")) THEN EXPIRY_API
      ELSE EXPIRY_RUNTIME

ExpiryTable == [u \in Urls |-> ExpiryByUrl(u)]

\* CACHE_EXPIRY of the resource class of a request
ExpiryOfClass(class) ==
  CASE class = "static" -> EXPIRY_STATIC
    [] class = "image"  -> EXPIRY_IMAGES
    [] class = "page"   -> EXPIRY_PAGES
    [] class = "api"    -> EXPIRY_API
    [] OTHER            -> EXPIRY_RUNTIME

\* isCacheExpired reading a missing Date header as the epoch, as new Date(null) does
isCacheExpired_EpochWhenNoDate(response, clock) ==
  IF response.date = NoDate THEN TRUE
  ELSE (clock - response.date) > ExpiryTable[response.url]

isCacheExpired(response, clock) ==
  IF response.date = NoDate THEN FALSE
  ELSE (clock - response.date) > ExpiryTable[response.url]

(* ---------------------------------------------------------------------- *)
(* State                                                                   *)
(* ---------------------------------------------------------------------- *)
VARIABLES
  script,        \* which worker script runs: "optimized" or "legacy"
  lifecycle,     \* parsed, installing, installed, activating, activated, redundant
  claimed,       \* self.clients.claim() has been called
  exists,        \* CacheStorage: the names caches.keys() lists
  keysOrder,     \* CacheStorage: the names in the order the caches were created, which
                 \*               is the order of caches.keys() and of caches.match
  entries,       \* CacheStorage: the stored responses, [name, url, response]
  toDelete,      \* caches.delete calls activate has issued and not yet applied
  precacheIdx,   \* position of the retry loop of precacheCriticalResources, 0 outside it
  precacheFetch, \* history: the manifest URLs whose last fetch by install was ok, and failed
  atActivate,    \* history: the cache names and entries present when activate ran
  deleted,       \* history: the cache names activate has deleted
  now,           \* the clock (new Date()), seconds
  ticks,         \* advances of the clock so far
  nreq,          \* fetch events so far
  nfetch,        \* fetch() calls of the strategies so far; numbers the network responses
  nmsg,          \* control messages so far
  tasks,         \* fetch() calls in flight, each with the continuation that awaits it
  last,          \* history: what the handler step just taken did
  lastPut,       \* history: the response most recently stored per cache and URL,
                 \*          since the cache was last deleted
  settledOk,     \* history: the [name, url] a fetch of a strategy got an ok response for
  handled,       \* history: the control messages handled so far, each with the
                 \*          settlement of the promise message(event) returned
  faulty,        \* CacheStorage: the calls that reject when getCacheStats makes them
  page           \* the page running service-worker-registration-optimized.js: the
                 \* registrations it sees, its messages in flight, its promises

vars == << script, lifecycle, claimed, exists, keysOrder, entries, toDelete,
           precacheIdx, precacheFetch, atActivate, deleted, now, ticks, nreq, nfetch,
           nmsg, tasks, last, lastPut, settledOk, handled, faulty, page >>

lifecycleVars == << script, lifecycle, claimed, toDelete, precacheIdx,
                    precacheFetch, atActivate, deleted >>
serveVars == << now, ticks, nreq, nfetch, nmsg, tasks, last, lastPut, settledOk,
               handled, faulty, page >>

\* the response awaited by respondWith has not been produced yet
Pending == [type |-> "pending"]

\* the cache storage answers every call of getCacheStats
NoFault == [open |-> {}, keys |-> {}, body |-> {}]

\* no page script is part of the behaviour
NoPage == [script |-> "none"]

\* the response install stores for a manifest URL: ok, dated at the fetch
Precached(u) == NetworkResponse(u, 200, 0, 0)

(* ---------------------------------------------------------------------- *)
(* CacheStorage                                                            *)
(* ---------------------------------------------------------------------- *)
\* the response stored in en under (name, u), Undefined when there is none
Lookup(en, name, u) ==
  LET hits == {e \in en : e.name = name /\ e.url = u}
  IN  IF hits = {} THEN Undefined ELSE (CHOOSE e \in hits : TRUE).response

\* cache.match(request) on the named cache
Match(name, u) == Lookup(entries, name, u)

\* Put keeping the response stored before beside the new one
Put_KeepsOld(en, name, u, response) ==
  en \cup {[name |-> name, url |-> u, response |-> response]}

\* the entries after cache.put(request, response) on the named cache
Put(en, name, u, response) ==
  {e \in en : ~ (e.name = name /\ e.url = u)}
    \cup {[name |-> name, url |-> u, response |-> response]}

\* the entries after caches.delete(name)
Drop(en, name) == {e \in en : e.name # name}

\* the creation order of the caches after a step: the deleted names leave it, the
\* names created by the step follow in the order of the step's caches.open calls
Created(order, names, opens) ==
  SelectSeq(order, LAMBDA n : n \in names)
    \o SelectSeq(opens, LAMBDA n : n \in names /\ \A i \in 1..Len(order) : order[i] # n)

\* the caches.open calls of a strategy, first to last: the cache of the request
\* (lines 194, 224, 230, 240, 265), then the static cache of getOfflineResponse (304)
strategyOpens == << IMAGES, PAGES, API, RUNTIME, STATIC >>

\* the in-flight continuations after caches.delete(name): the cache the name
\* denoted when their fetch was issued is gone. A Cache object obtained before the
\* deletion (cacheFirst, staleWhileRevalidate, cacheUrl) no longer backs the name
\* and its puts are not seen again; networkFirst and updateCache hold no Cache
\* object and open the name anew when the network answers (PutLands)
Detach(ts, name) ==
  { IF t.cacheName = name THEN [t EXCEPT !.live = FALSE] ELSE t : t \in ts }

(* ---------------------------------------------------------------------- *)
(* Install (service-worker-optimized.js)                                   *)
(* ---------------------------------------------------------------------- *)
\* the entries after cache.addAll(urls) on the named cache stored every response
AddAll(en, name, urls) ==
  {e \in en : ~ (e.name = name /\ e.url \in urls)}
    \cup {[name |-> name, url |-> u, response |-> Precached(u)] : u \in urls}

\* the history of install's fetches after fetching urls with the given success
Fetched(pf, urls, ok) ==
  IF ok THEN [ok |-> pf.ok \cup urls, failed |-> pf.failed \ urls]
        ELSE [ok |-> pf.ok \ urls, failed |-> pf.failed \cup urls]

\* install: precacheCriticalResources opens the static cache and tries addAll;
\* failing is the set of manifest URLs whose fetch fails (rejects or is not ok).
\* addAll stores all or nothing; after a failure the retry loop starts.
install ==
  /\ script = "optimized"
  /\ lifecycle = "parsed"
  /\ \E failing \in SUBSET PrecacheSet :
       /\ exists' = exists \cup {STATIC}
       /\ keysOrder' = Created(keysOrder, exists', << STATIC >>)
       /\ precacheFetch' = Fetched(Fetched(precacheFetch, PrecacheSet, TRUE), failing, FALSE)
       /\ IF failing = {}
            THEN /\ entries' = AddAll(entries, STATIC, PrecacheSet)
                 /\ lifecycle' = "installed"
                 /\ precacheIdx' = 0
            ELSE /\ entries' = entries
                 /\ lifecycle' = "installing"
                 /\ precacheIdx' = 1
  /\ UNCHANGED << script, claimed, toDelete, atActivate, deleted >>
  /\ UNCHANGED serveVars

\* precacheRetry with the inner try/catch left out: a failed cache.add rejects install
precacheRetry_AbortOnFailure ==
  /\ script = "optimized"
  /\ lifecycle = "installing"
  /\ precacheIdx \in 1..Len(precacheUrls)
  /\ LET url == precacheUrls[precacheIdx]
     IN  \E ok \in BOOLEAN :
           /\ entries' = IF ok THEN Put(entries, STATIC, url, Precached(url)) ELSE entries
           /\ precacheFetch' = Fetched(precacheFetch, {url}, ok)
           /\ IF ~ ok
                THEN lifecycle' = "redundant" /\ precacheIdx' = 0
                ELSE IF precacheIdx = Len(precacheUrls)
                       THEN lifecycle' = "installed" /\ precacheIdx' = 0
                       ELSE lifecycle' = lifecycle /\ precacheIdx' = precacheIdx + 1
  /\ UNCHANGED << script, claimed, exists, keysOrder, toDelete, atActivate, deleted >>
  /\ UNCHANGED serveVars

\* one round of the fallback loop: cache.add(url), a failure is logged and skipped;
\* after the last URL precacheCriticalResources resolves and install completes
precacheRetry ==
  /\ script = "optimized"
  /\ lifecycle = "installing"
  /\ precacheIdx \in 1..Len(precacheUrls)
  /\ LET url == precacheUrls[precacheIdx]
     IN  \E ok \in BOOLEAN :
           /\ entries' = IF ok THEN Put(entries, STATIC, url, Precached(url)) ELSE entries
           /\ precacheFetch' = Fetched(precacheFetch, {url}, ok)
  /\ IF precacheIdx = Len(precacheUrls)
       THEN lifecycle' = "installed" /\ precacheIdx' = 0
       ELSE lifecycle' = lifecycle /\ precacheIdx' = precacheIdx + 1
  /\ UNCHANGED << script, claimed, exists, keysOrder, toDelete, atActivate, deleted >>
  /\ UNCHANGED serveVars

(* ---------------------------------------------------------------------- *)
(* Install (ravan-fashion-service-worker.js)                               *)
(* ---------------------------------------------------------------------- *)
\* Promise.all of the two addAll calls and skipWaiting; failing is the set of
\* manifest URLs whose fetch fails.  Each addAll fetches its whole list and stores
\* all of it or nothing, and a rejected addAll rejects the install
legacyInstall ==
  /\ script = "legacy"
  /\ lifecycle = "parsed"
  /\ \E failing \in SUBSET (CRITICAL_ASSETS \cup CULTURAL_IMAGES) :
       LET okCritical == failing \cap CRITICAL_ASSETS = {}
           okImages   == failing \cap CULTURAL_IMAGES = {}
           critical   == IF okCritical
                           THEN AddAll(entries, CRITICAL_CACHE, CRITICAL_ASSETS)
                           ELSE entries
       IN  /\ exists' = exists \cup {CRITICAL_CACHE, IMAGE_CACHE}
           /\ keysOrder' = Created(keysOrder, exists', << CRITICAL_CACHE, IMAGE_CACHE >>)
           /\ entries' = IF okImages THEN AddAll(critical, IMAGE_CACHE, CULTURAL_IMAGES)
                                     ELSE critical
           /\ precacheFetch' =
                Fetched(Fetched(precacheFetch, CRITICAL_ASSETS \cup CULTURAL_IMAGES, TRUE),
                        failing, FALSE)
           /\ lifecycle' = IF okCritical /\ okImages THEN "installed" ELSE "redundant"
  /\ UNCHANGED << script, claimed, toDelete, precacheIdx, atActivate, deleted >>
  /\ UNCHANGED serveVars

(* ---------------------------------------------------------------------- *)
(* Activate                                                                *)
(* ---------------------------------------------------------------------- *)
\* isOldCache testing the version tag of the name instead of the list of names
isOldCache_ByVersionTag(cacheName) ==
  ~ (/\ StartsWith(Chars(cacheName), Chars("ravan-fashion-"))
     /\ EndsWith(Chars(cacheName), Chars("-v1")))

\* cleanupOldCaches: the filter of service-worker-optimized.js
isOldCache(cacheName) == cacheName \notin currentCaches

\* legacyIsOldCache without the version test (as the CLEAN_CACHE handler has it)
legacyIsOldCache_AnyVersion(cacheName) ==
  StartsWith(Chars(cacheName), Chars("ravan-fashion-"))

\* the test of the activate listener of ravan-fashion-service-worker.js
legacyIsOldCache(cacheName) ==
  /\ StartsWith(Chars(cacheName), Chars("ravan-fashion-"))
  /\ ~ EndsWith(Chars(cacheName), Chars("-v1"))

\* activate of service-worker-optimized.js: cleanupOldCaches lists the caches and
\* issues a delete for each old one; clients.claim() is called without awaiting it
activate ==
  /\ script = "optimized"
  /\ lifecycle = "installed"
  /\ lifecycle' = "activating"
  /\ atActivate' = [names |-> exists, entries |-> entries]
  /\ toDelete' = {n \in exists : isOldCache(n)}
  /\ claimed' = TRUE
  /\ UNCHANGED << script, exists, keysOrder, entries, precacheIdx, precacheFetch, deleted >>
  /\ UNCHANGED serveVars

\* activate of ravan-fashion-service-worker.js: the deletes are issued, claim waits
legacyActivate ==
  /\ script = "legacy"
  /\ lifecycle = "installed"
  /\ lifecycle' = "activating"
  /\ atActivate' = [names |-> exists, entries |-> entries]
  /\ toDelete' = {n \in exists : legacyIsOldCache(n)}
  /\ UNCHANGED << script, claimed, exists, keysOrder, entries, precacheIdx, precacheFetch,
                  deleted >>
  /\ UNCHANGED serveVars

\* one caches.delete(cacheName) of the Promise.all takes effect
deleteCache ==
  /\ lifecycle = "activating"
  /\ \E n \in toDelete :
       /\ toDelete' = toDelete \ {n}
       /\ exists' = exists \ {n}
       /\ keysOrder' = Created(keysOrder, exists', << >>)
       /\ entries' = Drop(entries, n)
       /\ deleted' = deleted \cup {n}
  /\ UNCHANGED << script, lifecycle, claimed, precacheIdx, precacheFetch, atActivate >>
  /\ UNCHANGED serveVars

\* every delete is done: waitUntil settles; the legacy script claims the clients now
activated ==
  /\ lifecycle = "activating"
  /\ toDelete = {}
  /\ lifecycle' = "activated"
  /\ claimed' = TRUE
  /\ UNCHANGED << script, exists, keysOrder, entries, toDelete, precacheIdx,
                  precacheFetch, atActivate, deleted >>
  /\ UNCHANGED serveVars

(* ---------------------------------------------------------------------- *)
(* Strategies (service-worker-optimized.js): the part run by the fetch     *)
(* event, up to the first await of the network                             *)
(* ---------------------------------------------------------------------- *)
\* the environment may still raise an event
MoreEvents == nreq + nmsg + ticks < MaxEvents

\* nothing was handed to respondWith in this step
NotDelivered == [type |-> "none"]

\* fetch(request) is called and its continuation waits for the network
Spawn(kind, request, cacheName, cached, fg) ==
  /\ nfetch' = nfetch + 1
  /\ tasks' = tasks \cup
       {[fid |-> nfetch + 1, kind |-> kind, req |-> request, cacheName |-> cacheName,
         cached |-> cached, fg |-> fg, live |-> TRUE]}

\* updateCache, called without await: its fetch is issued at once
updateCache(request, cacheName) ==
  Spawn("updateCache", request, cacheName, Undefined, FALSE)

cacheFirst(request, cacheName) ==
  LET cached == Match(cacheName, request.url)
      expired == cached # Undefined /\ isCacheExpired(cached, now)
  IN  /\ exists' = exists \cup {cacheName}
      /\ entries' = entries
      /\ IF cached # Undefined
           THEN IF expired
                  THEN updateCache(request, cacheName)
                  ELSE UNCHANGED << nfetch, tasks >>
           ELSE Spawn("cacheFirst", request, cacheName, cached, TRUE)
      /\ last' = [op |-> "fetch", strategy |-> "cacheFirst", req |-> request,
                  cacheName |-> cacheName, cached |-> cached,
                  fetches |-> nfetch' - nfetch, opened |-> {cacheName},
                  delivered |-> IF cached # Undefined THEN cached ELSE Pending]

networkFirst(request, cacheName) ==
  /\ UNCHANGED << exists, entries >>
  /\ Spawn("networkFirst", request, cacheName, Undefined, TRUE)
  /\ last' = [op |-> "fetch", strategy |-> "networkFirst", req |-> request,
              cacheName |-> cacheName, cached |-> Undefined,
              fetches |-> nfetch' - nfetch, opened |-> {}, delivered |-> Pending]

\* staleWhileRevalidate returning the promise of its fetch whatever the cache holds
staleWhileRevalidate_AwaitsNetwork(request, cacheName) ==
  LET cached == Match(cacheName, request.url)
  IN  /\ exists' = exists \cup {cacheName}
      /\ entries' = entries
      /\ Spawn("staleWhileRevalidate", request, cacheName, cached, TRUE)
      /\ last' = [op |-> "fetch", strategy |-> "staleWhileRevalidate", req |-> request,
                  cacheName |-> cacheName, cached |-> cached,
                  fetches |-> nfetch' - nfetch, opened |-> {cacheName},
                  delivered |-> Pending]

staleWhileRevalidate(request, cacheName) ==
  LET cached == Match(cacheName, request.url)
  IN  /\ exists' = exists \cup {cacheName}
      /\ entries' = entries
      /\ Spawn("staleWhileRevalidate", request, cacheName, cached, cached = Undefined)
      /\ last' = [op |-> "fetch", strategy |-> "staleWhileRevalidate", req |-> request,
                  cacheName |-> cacheName, cached |-> cached,
                  fetches |-> nfetch' - nfetch, opened |-> {cacheName},
                  delivered |-> IF cached # Undefined THEN cached ELSE Pending]

\* OptimizedServiceWorker.fetch: the handler of the request's class
fetch(request) ==
  LET class == ClassTable[request]
  IN  CASE StrategyOf(class) = "cacheFirst" -> cacheFirst(request, CacheOf(class))
        [] StrategyOf(class) = "networkFirst" -> networkFirst(request, CacheOf(class))
        [] OTHER -> staleWhileRevalidate(request, CacheOf(class))

\* a fetch event reaches the activated worker
FetchEvent ==
  /\ script = "optimized"
  /\ lifecycle = "activated"
  /\ nreq < MaxRequests
  /\ MoreEvents
  /\ nreq' = nreq + 1
  /\ \E request \in Requests : fetch(request)
  /\ keysOrder' = Created(keysOrder, exists', strategyOpens)
  /\ UNCHANGED << now, ticks, nmsg, lastPut, settledOk, handled, faulty, page >>
  /\ UNCHANGED lifecycleVars

(* ---------------------------------------------------------------------- *)
(* Strategies: the continuation run when the network answers               *)
(* ---------------------------------------------------------------------- *)
\* getOfflineResponse: the value, and the caches that exist after it ran
getOfflineResponse(request) ==
  IF request.mode = "navigate" THEN Match(STATIC, "/offline.html") ELSE OfflinePlaceholder

OfflineOpens(request) == IF request.mode = "navigate" THEN {STATIC} ELSE {}

\* the step record of a continuation; opened: the caches it opened after the fetch,
\* replaced: the entry the named cache held for the request when the network answered
Settled(t, outcome, network, delivered, opened) ==
  [op |-> "settle", strategy |-> t.kind, req |-> t.req, cacheName |-> t.cacheName,
   cached |-> t.cached, outcome |-> outcome, network |-> network, live |-> t.live,
   delivered |-> delivered, opened |-> opened, fid |-> t.fid,
   replaced |-> Match(t.cacheName, t.req.url)]

\* the outcomes of `await fetch(request)` and of the cache.put that follows an ok
\* response: "ok" (2xx, stored), "putfails" (2xx, cache.put rejects), "notok"
\* (the fetch resolved with a non-2xx response), "reject" (the fetch rejected)
Outcomes == {"ok", "putfails", "notok", "reject"}

\* the catch block runs: the fetch or the cache.put inside the try rejected
Caught(outcome) == outcome \in {"reject", "putfails"}

\* cacheFirstSettled without the cache.put of the network response
cacheFirstSettled_NoPut(t, outcome, network) ==
  /\ entries' = entries
  /\ exists' = IF Caught(outcome) THEN exists \cup OfflineOpens(t.req) ELSE exists
  /\ last' = Settled(t, outcome, network,
                     IF Caught(outcome) THEN getOfflineResponse(t.req) ELSE network,
                     IF Caught(outcome) THEN OfflineOpens(t.req) ELSE {})

\* cacheFirst after `await fetch(request)`
cacheFirstSettled(t, outcome, network) ==
  /\ entries' = IF outcome = "ok" /\ t.live
                  THEN Put(entries, t.cacheName, t.req.url, network) ELSE entries
  /\ exists' = IF Caught(outcome) THEN exists \cup OfflineOpens(t.req) ELSE exists
  /\ last' = Settled(t, outcome, network,
                     IF Caught(outcome) THEN getOfflineResponse(t.req) ELSE network,
                     IF Caught(outcome) THEN OfflineOpens(t.req) ELSE {})

\* networkFirstSettled going to the offline response without looking in the cache
networkFirstSettled_NoCacheFallback(t, outcome, network) ==
  /\ entries' = IF outcome = "ok"
                  THEN Put(entries, t.cacheName, t.req.url, network) ELSE entries
  /\ exists' = CASE outcome = "ok" -> exists \cup {t.cacheName}
                 [] outcome = "notok" -> exists
                 [] OTHER -> exists \cup OfflineOpens(t.req)
  /\ last' = Settled(t, outcome, network,
                     IF ~ Caught(outcome) THEN network ELSE getOfflineResponse(t.req),
                     IF outcome = "ok" THEN {t.cacheName}
                     ELSE IF outcome = "notok" THEN {} ELSE OfflineOpens(t.req))

\* networkFirst after `await fetch(request)`
networkFirstSettled(t, outcome, network) ==
  LET cached == Match(t.cacheName, t.req.url)
      opened == CASE outcome = "ok" -> {t.cacheName}
                  [] outcome = "notok" -> {}
                  [] OTHER -> {t.cacheName} \cup
                              (IF cached # Undefined THEN {} ELSE OfflineOpens(t.req))
  IN  /\ entries' = IF outcome = "ok"
                      THEN Put(entries, t.cacheName, t.req.url, network) ELSE entries
      /\ exists' = exists \cup opened
      /\ last' = Settled(t, outcome, network,
                         IF ~ Caught(outcome) THEN network
                         ELSE IF cached # Undefined THEN cached
                         ELSE getOfflineResponse(t.req),
                         opened)

\* staleWhileRevalidateSettled without the cache.put of the network response
staleWhileRevalidateSettled_NoPut(t, outcome, network) ==
  /\ entries' = entries
  /\ exists' = exists
  /\ last' = Settled(t, outcome, network,
                     IF ~ t.fg THEN NotDelivered
                     ELSE IF Caught(outcome) THEN t.cached ELSE network,
                     {})

\* the then/catch chain of staleWhileRevalidate; its value reaches respondWith
\* only when nothing was cached at the lookup
staleWhileRevalidateSettled(t, outcome, network) ==
  /\ entries' = IF outcome = "ok" /\ t.live
                  THEN Put(entries, t.cacheName, t.req.url, network) ELSE entries
  /\ exists' = exists
  /\ last' = Settled(t, outcome, network,
                     IF ~ t.fg THEN NotDelivered
                     ELSE IF Caught(outcome) THEN t.cached ELSE network,
                     {})

\* updateCacheSettled without the test of network.ok
updateCacheSettled_StoresAny(t, outcome, network) ==
  /\ entries' = IF outcome \in {"ok", "notok"}
                  THEN Put(entries, t.cacheName, t.req.url, network) ELSE entries
  /\ exists' = IF outcome # "reject" THEN exists \cup {t.cacheName} ELSE exists
  /\ last' = Settled(t, outcome, network, NotDelivered,
                     IF outcome # "reject" THEN {t.cacheName} ELSE {})

\* updateCache after `await fetch(request)`: the cache is opened for the put
updateCacheSettled(t, outcome, network) ==
  /\ entries' = IF outcome = "ok"
                  THEN Put(entries, t.cacheName, t.req.url, network) ELSE entries
  /\ exists' = IF outcome \in {"ok", "putfails"} THEN exists \cup {t.cacheName} ELSE exists
  /\ last' = Settled(t, outcome, network, NotDelivered,
                     IF outcome \in {"ok", "putfails"} THEN {t.cacheName} ELSE {})

\* cacheUrlSettled removing an entry it finds instead of replacing it
cacheUrlSettled_EvictsOnRepeat(t, outcome, network) ==
  /\ entries' = IF outcome = "ok" /\ t.live
                  THEN IF Match(t.cacheName, t.req.url) # Undefined
                         THEN {e \in entries : ~ (e.name = t.cacheName /\ e.url = t.req.url)}
                         ELSE Put(entries, t.cacheName, t.req.url, network)
                  ELSE entries
  /\ exists' = exists
  /\ last' = Settled(t, outcome, network, NotDelivered, {})

\* cacheUrl after `await fetch(url)`: the put goes to the cache opened before
cacheUrlSettled(t, outcome, network) ==
  /\ entries' = IF outcome = "ok" /\ t.live
                  THEN Put(entries, t.cacheName, t.req.url, network) ELSE entries
  /\ exists' = exists
  /\ last' = Settled(t, outcome, network, NotDelivered, {})

\* whether the put of a continuation lands in the cache storage lists under the name
PutLands(t, outcome) ==
  /\ outcome = "ok"
  /\ t.kind \in {"networkFirst", "updateCache"} \/ t.live

\* the URLs whose server sends no Date header
DatelessUrls == {"/files/hero.png"}

\* the entry of the message log whose cacheUrl awaited fetch number fid gets the
\* settlement of its promise: cacheUrl catches every failure, message resolves
Resolved(log, fid, outcome, network, post) ==
  [i \in 1..Len(log) |->
     IF log[i].fid = fid
       THEN [log[i] EXCEPT !.result = "resolved", !.outcome = outcome,
                           !.network = network, !.post = post]
       ELSE log[i]]

\* the network answers the fetch of continuation t with the given outcome and a
\* body of the given length
SettleTask(t, outcome, body) ==
  LET network == IF outcome = "reject" THEN Undefined
                 ELSE NetworkResponse(t.req.url,
                                      IF outcome = "notok" THEN 404 ELSE 200,
                                      IF t.req.url \in DatelessUrls THEN NoDate ELSE now,
                                      body)
  IN  /\ tasks' = tasks \ {t}
      /\ CASE t.kind = "cacheFirst" -> cacheFirstSettled(t, outcome, network)
           [] t.kind = "networkFirst" -> networkFirstSettled(t, outcome, network)
           [] t.kind = "staleWhileRevalidate" -> staleWhileRevalidateSettled(t, outcome, network)
           [] t.kind = "updateCache" -> updateCacheSettled(t, outcome, network)
           [] OTHER -> cacheUrlSettled(t, outcome, network)
      /\ keysOrder' = Created(keysOrder, exists', strategyOpens)
      /\ lastPut' = IF PutLands(t, outcome)
                      THEN {e \in lastPut : ~ (e.name = t.cacheName /\ e.url = t.req.url)}
                             \cup {[name |-> t.cacheName, url |-> t.req.url,
                                    response |-> network]}
                      ELSE lastPut
      /\ settledOk' = IF outcome = "ok"
                        THEN settledOk \cup {[name |-> t.cacheName, url |-> t.req.url]}
                        ELSE settledOk
      /\ handled' = IF t.kind = "cacheUrl"
                      THEN Resolved(handled, t.fid, outcome, network,
                                    [keys |-> keysOrder', entries |-> entries'])
                      ELSE handled
      /\ UNCHANGED << now, ticks, nreq, nfetch, nmsg, faulty, page >>
      /\ UNCHANGED lifecycleVars

\* the network answers one fetch in flight; the cache storage takes every put, and
\* the body of the answer to fetch number n is n bytes long
Settle ==
  \E t \in tasks, outcome \in {"ok", "notok", "reject"} : SettleTask(t, outcome, t.fid)

(* ---------------------------------------------------------------------- *)
(* Control messages (service-worker-optimized.js)                          *)
(* ---------------------------------------------------------------------- *)
\* the cache names and URLs the pages of the model name in their messages
MsgCacheNames == {STATIC, PAGES, API}
MsgUrls == {"/offline.html"}

\* blob.size of response.blob(): the length of the body
BlobSize(response) == response.body

\* caches.match(key): the first cache in creation order that holds the URL answers
CachesMatch(order, en, u) ==
  LET holders == {i \in 1..Len(order) : Lookup(en, order[i], u) # Undefined}
  IN  IF holders = {} THEN Undefined
      ELSE Lookup(en, order[CHOOSE i \in holders : \A j \in holders : i <= j], u)

\* the sum of a function from a finite set to the natural numbers: the number of
\* elements of the bag that holds x as many times as f[x]
Sum(f) == BagCardinality([x \in {y \in DOMAIN f : f[y] > 0} |-> f[x]])

\* calculateCacheSize: the sizes of caches.match(key) over the keys, added up; a
\* key whose caches.match or blob() rejects is skipped by the catch in the loop
SumSizes(order, en, urls) ==
  Sum([u \in urls |->
         IF CachesMatch(order, en, u) # Undefined /\ u \notin faulty.body
           THEN BlobSize(CachesMatch(order, en, u)) ELSE 0])

calculateCacheSize(order, en, keys) == SumSizes(order, en, keys)

\* cache.keys() of the named cache
Keys(en, name) == {e.url : e \in {x \in en : x.name = name}}

\* getCacheStats: every cache of RAVAN_FASHION_CACHE is opened, which creates the
\* missing ones, and gets its count and size; a cache whose caches.open or
\* cache.keys() rejects gets count 0 and size 0 from the catch
getCacheStatsOpens == << STATIC, IMAGES, PAGES, API, RUNTIME >>

\* getCacheStats without the try/catch around a cache: a cache that fails is
\* left out of the statistics
getCacheStats_OmitsFailed(order, en) ==
  [name \in currentCaches \ (faulty.open \cup faulty.keys) |->
     [count |-> Cardinality(Keys(en, name)),
      size  |-> calculateCacheSize(order, en, Keys(en, name))]]

getCacheStats(order, en) ==
  [name \in currentCaches |->
     IF name \in faulty.open \cup faulty.keys
       THEN [count |-> 0, size |-> 0]
       ELSE [count |-> Cardinality(Keys(en, name)),
             size  |-> calculateCacheSize(order, en, Keys(en, name))]]

\* no reply was posted
NoReply == [type |-> "none"]

\* the log entry of a handled message: the settlement of the promise returned by
\* message(event), the reply posted, the fetch awaited, and the caches before and after
Handling(event, result, reply, fid, before, after) ==
  [event |-> event, result |-> result, reply |-> reply, fid |-> fid,
   outcome |-> "none", network |-> Undefined, quiet |-> tasks = {},
   pre |-> before, post |-> after]

\* nothing but the log and the step record changes
Untouched ==
  /\ UNCHANGED << exists, keysOrder, entries, tasks, nfetch, lastPut >>

\* the handler threw before or outside every try block: message(event) rejects
Rejects(event) ==
  /\ Untouched
  /\ last' = [op |-> "message", event |-> event, result |-> "rejected",
              reply |-> NoReply, fetches |-> 0]
  /\ handled' = Append(handled,
                       Handling(event, "rejected", NoReply, 0,
                                [keys |-> keysOrder, entries |-> entries],
                                [keys |-> keysOrder, entries |-> entries]))

\* the handler ran to its end without touching a cache: SKIP_WAITING on the active
\* worker, SYNC_NOW with nothing stored to send, the default branch
Ignores(event) ==
  /\ Untouched
  /\ last' = [op |-> "message", event |-> event, result |-> "resolved",
              reply |-> NoReply, fetches |-> 0]
  /\ handled' = Append(handled,
                       Handling(event, "resolved", NoReply, 0,
                                [keys |-> keysOrder, entries |-> entries],
                                [keys |-> keysOrder, entries |-> entries]))

\* self.skipWaiting() in the active worker
skipWaiting(event) == Ignores(event)

\* syncNow: getStoredCartData and getStoredPreferences return null and
\* getStoredAnalytics an empty list, so no fetch is made
syncNow(event) == Ignores(event)

\* cacheUrl up to `await fetch(url)`: the cache is opened, then the fetch issued
cacheUrl(event, url, cacheName) ==
  /\ exists' = exists \cup {cacheName}
  /\ keysOrder' = Created(keysOrder, exists', << cacheName >>)
  /\ entries' = entries
  /\ Spawn("cacheUrl", [accept |-> "*/*", mode |-> "cors", url |-> url], cacheName,
           Undefined, FALSE)
  /\ lastPut' = lastPut
  /\ last' = [op |-> "message", event |-> event, result |-> "pending",
              reply |-> NoReply, fetches |-> 1]
  /\ handled' = Append(handled,
                       Handling(event, "pending", NoReply, nfetch + 1,
                                [keys |-> keysOrder, entries |-> entries],
                                [keys |-> keysOrder', entries |-> entries']))

\* clearCache: caches.delete(cacheName)
clearCache(event, cacheName) ==
  /\ exists' = exists \ {cacheName}
  /\ keysOrder' = Created(keysOrder, exists', << >>)
  /\ entries' = Drop(entries, cacheName)
  /\ tasks' = Detach(tasks, cacheName)
  /\ nfetch' = nfetch
  /\ lastPut' = Drop(lastPut, cacheName)
  /\ last' = [op |-> "message", event |-> event, result |-> "resolved",
              reply |-> NoReply, fetches |-> 0]
  /\ handled' = Append(handled,
                       Handling(event, "resolved", NoReply, 0,
                                [keys |-> keysOrder, entries |-> entries],
                                [keys |-> keysOrder', entries |-> entries']))

\* case 'GET_CACHE_STATS': the statistics are computed, then posted to
\* event.ports[0]; without a port the postMessage call throws
replyCacheStats(event) ==
  LET stats  == getCacheStats(keysOrder', entries)
      posted == event.ports > 0
      reply  == IF posted THEN [type |-> "CACHE_STATS", data |-> stats] ELSE NoReply
      result == IF posted THEN "resolved" ELSE "rejected"
  IN  /\ exists' = exists \cup (currentCaches \ faulty.open)
      /\ keysOrder' = Created(keysOrder, exists', getCacheStatsOpens)
      /\ UNCHANGED << entries, tasks, nfetch, lastPut >>
      /\ last' = [op |-> "message", event |-> event, result |-> result,
                  reply |-> reply, fetches |-> 0]
      /\ handled' = Append(handled,
                           Handling(event, result, reply, 0,
                                    [keys |-> keysOrder, entries |-> entries],
                                    [keys |-> keysOrder', entries |-> entries']))

\* message with a default branch that clears the static cache
message_DefaultClears(event) ==
  IF event.data = Undefined THEN Rejects(event)
  ELSE LET type == event.data.type
           data == event.data.data
       IN  CASE type = "SKIP_WAITING" -> skipWaiting(event)
             [] type = "CACHE_URL" ->
                  IF data = Undefined THEN Rejects(event)
                  ELSE cacheUrl(event, data.url,
                                IF "cacheName" \in DOMAIN data
                                  THEN data.cacheName ELSE STATIC)
             [] type = "CLEAR_CACHE" ->
                  IF data = Undefined THEN Rejects(event)
                  ELSE clearCache(event, data.cacheName)
             [] type = "GET_CACHE_STATS" -> replyCacheStats(event)
             [] type = "SYNC_NOW" -> syncNow(event)
             [] OTHER -> clearCache(event, STATIC)

\* OptimizedServiceWorker.message: `const { type, data } = event.data` throws when
\* event.data is undefined, `data.url` and `data.cacheName` when data is; cacheName
\* missing from a CACHE_URL takes the default of cacheUrl
message(event) ==
  IF event.data = Undefined THEN Rejects(event)
  ELSE LET type == event.data.type
           data == event.data.data
       IN  CASE type = "SKIP_WAITING" -> skipWaiting(event)
             [] type = "CACHE_URL" ->
                  IF data = Undefined THEN Rejects(event)
                  ELSE cacheUrl(event, data.url,
                                IF "cacheName" \in DOMAIN data
                                  THEN data.cacheName ELSE STATIC)
             [] type = "CLEAR_CACHE" ->
                  IF data = Undefined THEN Rejects(event)
                  ELSE clearCache(event, data.cacheName)
             [] type = "GET_CACHE_STATS" -> replyCacheStats(event)
             [] type = "SYNC_NOW" -> syncNow(event)
             [] OTHER -> Ignores(event)

\* the data field of a message, by the fields the page gave it
DataOf(fields, url, cacheName) ==
  CASE fields = "url, cacheName" -> [cacheName |-> cacheName, url |-> url]
    [] fields = "url" -> [url |-> url]
    [] fields = "cacheName" -> [cacheName |-> cacheName]
    [] OTHER -> Undefined

\* the message event: event.data is {type, data}, or undefined when the page posted
\* nothing; ports is the number of reply ports transferred with it
EventOf(type, fields, url, cacheName, ports) ==
  [data |-> IF fields = "no event.data" THEN Undefined
            ELSE [data |-> DataOf(fields, url, cacheName), type |-> type],
   ports |-> ports]

\* a message event reaches the activated worker
MessageEvent(type, fields, url, cacheName, ports) ==
  /\ script = "optimized"
  /\ lifecycle = "activated"
  /\ nmsg < MaxMessages
  /\ MoreEvents
  /\ nmsg' = nmsg + 1
  /\ LET event == EventOf(type, fields, url, cacheName, ports)
     IN  message(event)
  /\ UNCHANGED << now, ticks, nreq, settledOk, faulty, page >>
  /\ UNCHANGED lifecycleVars

ClearCacheMessage ==
  \E cacheName \in MsgCacheNames :
    MessageEvent("CLEAR_CACHE", "cacheName", "", cacheName, 0)

CacheUrlMessage ==
  \E url \in MsgUrls, cacheName \in MsgCacheNames :
    MessageEvent("CACHE_URL", "url, cacheName", url, cacheName, 0)

(* ---------------------------------------------------------------------- *)
(* The clock                                                               *)
(* ---------------------------------------------------------------------- *)
HOUR == 60 * 60
DAY  == 24 * HOUR

\* how far the clock moves between two steps of the model
Advances == {2 * HOUR, 8 * DAY}

Tick ==
  /\ ticks < MaxTicks
  /\ MoreEvents
  /\ lifecycle = "activated"
  /\ \E d \in Advances : now' = now + d
  /\ ticks' = ticks + 1
  /\ last' = [op |-> "tick"]
  /\ UNCHANGED << exists, keysOrder, entries, nreq, nfetch, nmsg, tasks, lastPut,
                  settledOk, handled, faulty, page >>
  /\ UNCHANGED lifecycleVars

(* ---------------------------------------------------------------------- *)
(* Specifications                                                          *)
(* ---------------------------------------------------------------------- *)
ServeIdle ==
  /\ now = 0 /\ ticks = 0 /\ nreq = 0 /\ nfetch = 0 /\ nmsg = 0
  /\ tasks = {}
  /\ last = [op |-> "none"]
  /\ settledOk = {}
  /\ handled = << >>
  /\ faulty = NoFault
  /\ page = NoPage

\* the caches a prior deployment left, each holding one entry
PriorPool == PriorCaches \cup {FONT_CACHE, API}

\* the order in which the prior deployments created them
PriorOrder == << "third-party-cache", "ravan-fashion-static-v0", FONT_CACHE, API >>

\* a freshly parsed worker of either script, over what earlier deployments left
InitLifecycle ==
  /\ script \in {"optimized", "legacy"}
  /\ lifecycle = "parsed"
  /\ claimed = FALSE
  /\ exists \in SUBSET PriorPool
  /\ keysOrder = Created(<< >>, exists, PriorOrder)
  /\ entries = {[name |-> n, url |-> "/assets/app.css",
                  response |-> Precached("/assets/app.css")] : n \in exists}
  /\ toDelete = {}
  /\ precacheIdx = 0
  /\ precacheFetch = [ok |-> {}, failed |-> {}]
  /\ atActivate = [names |-> {}, entries |-> {}]
  /\ deleted = {}
  /\ lastPut = {}
  /\ ServeIdle

NextLifecycle ==
  \/ install
  \/ precacheRetry
  \/ legacyInstall
  \/ activate
  \/ legacyActivate
  \/ deleteCache
  \/ activated

\* install and activation of either script
SpecLifecycle == InitLifecycle /\ [][NextLifecycle]_vars

\* the activated worker of service-worker-optimized.js: the static cache holds what
\* install could store (here the whole manifest, or nothing of it)
Init ==
  /\ script = "optimized"
  /\ lifecycle = "activated"
  /\ claimed = TRUE
  /\ exists = {STATIC}
  /\ keysOrder = << STATIC >>
  /\ \E stored \in {PrecacheSet, {}} :
       /\ entries = AddAll({}, STATIC, stored)
       /\ precacheFetch = [ok |-> stored, failed |-> PrecacheSet \ stored]
  /\ toDelete = {}
  /\ precacheIdx = 0
  /\ atActivate = [names |-> exists, entries |-> entries]
  /\ deleted = {}
  /\ lastPut = entries
  /\ ServeIdle

Next ==
  \/ FetchEvent
  \/ Settle
  \/ ClearCacheMessage
  \/ Tick

Spec == Init /\ [][Next]_vars

(* ---------------------------------------------------------------------- *)
(* Classification alone: a request arrives, fetch picks its branch         *)
(* ---------------------------------------------------------------------- *)
\* the activated worker with its precache, and a request about to be classified
InitClassify ==
  /\ script = "optimized"
  /\ lifecycle = "activated"
  /\ claimed = TRUE
  /\ exists = {STATIC}
  /\ keysOrder = << STATIC >>
  /\ entries = AddAll({}, STATIC, PrecacheSet)
  /\ precacheFetch = [ok |-> PrecacheSet, failed |-> {}]
  /\ toDelete = {}
  /\ precacheIdx = 0
  /\ atActivate = [names |-> exists, entries |-> entries]
  /\ deleted = {}
  /\ lastPut = entries
  /\ now = 0 /\ ticks = 0 /\ nreq = 0 /\ nfetch = 0 /\ nmsg = 0
  /\ tasks = {}
  /\ settledOk = {}
  /\ handled = << >>
  /\ faulty = NoFault
  /\ page = NoPage
  /\ \E request \in ClassifyRequests : last = [op |-> "request", req |-> request]

\* the if/else chain of OptimizedServiceWorker.fetch evaluates the predicates on
\* the request; they read request.url, request.mode and the Accept header only
classify ==
  /\ last.op = "request"
  /\ last' = [op |-> "classify", req |-> last.req, class |-> Classify(last.req)]
  /\ UNCHANGED << exists, keysOrder, entries, now, ticks, nreq, nfetch, nmsg, tasks,
                  lastPut, settledOk, handled, faulty, page >>
  /\ UNCHANGED lifecycleVars

NextClassify == classify

SpecClassify == InitClassify /\ [][NextClassify]_vars

(* ---------------------------------------------------------------------- *)
(* Control messages alone: pages post messages, the network answers the    *)
(* fetches of cacheUrl                                                     *)
(* ---------------------------------------------------------------------- *)
\* SKIP_WAITING, as the registration script posts it: {type} alone
SkipWaitingMessage == MessageEvent("SKIP_WAITING", "no data", "", "", 0)

SyncNowMessage == MessageEvent("SYNC_NOW", "no data", "", "", 0)

\* GET_CACHE_STATS through a MessageChannel, or posted without a reply port
GetCacheStatsMessage ==
  \E ports \in {0, 1} : MessageEvent("GET_CACHE_STATS", "no data", "", "", ports)

\* CACHE_URL without a cacheName: cacheUrl takes its default
CacheUrlDefaultMessage ==
  \E url \in MsgUrls : MessageEvent("CACHE_URL", "url", url, "", 0)

\* a type the switch has no case for; the registration script posts CLEANUP_CACHE
UnknownMessage == MessageEvent("CLEANUP_CACHE", "no data", "", "", 0)

\* postMessage() without an argument, and CACHE_URL / CLEAR_CACHE without data
MalformedMessage ==
  \/ MessageEvent("", "no event.data", "", "", 0)
  \/ \E type \in {"CACHE_URL", "CLEAR_CACHE"} : MessageEvent(type, "no data", "", "", 0)

\* the lengths of the bodies the network of this specification answers with
BodySizes == {1, 2}

\* the network answers the fetch of a cacheUrl; the cache.put may fail
SettleSized ==
  \E t \in tasks, outcome \in Outcomes, body \in BodySizes :
    /\ outcome # "ok" => body = 1
    /\ SettleTask(t, outcome, body)

NextMessages ==
  \/ SkipWaitingMessage
  \/ CacheUrlMessage
  \/ CacheUrlDefaultMessage
  \/ ClearCacheMessage
  \/ GetCacheStatsMessage
  \/ SyncNowMessage
  \/ UnknownMessage
  \/ MalformedMessage
  \/ SettleSized

\* the activated worker (Init) serving control messages only
SpecMessages == Init /\ [][NextMessages]_vars

(* ---------------------------------------------------------------------- *)
(* Requests over a cache storage whose writes may fail (quota exceeded)    *)
(* ---------------------------------------------------------------------- *)
\* the network answers one fetch in flight; the cache.put of an ok response may reject
SettleQuota ==
  \E t \in tasks, outcome \in Outcomes : SettleTask(t, outcome, t.fid)

NextQuota ==
  \/ FetchEvent
  \/ SettleQuota

SpecQuota == Init /\ [][NextQuota]_vars

(* ---------------------------------------------------------------------- *)
(* Fetch, sync and CLEAN_CACHE (ravan-fashion-service-worker.js): the      *)
(* three cache-first handlers.  The requests of the model are assets,      *)
(* images and fonts; none reaches handleNetworkFirstRequest.               *)
(* ---------------------------------------------------------------------- *)
\* new URL(href).hostname: from the end of the scheme to the first "/"
Hostname(u) ==
  LET h == Href(u)
      a == IndexOf(h, Chars("://"), 1) + 3
      p == IndexOf(h, Chars("/"), a)
  IN  SubSeq(h, a, IF p = 0 THEN Len(h) ELSE p - 1)

\* the requests the pages served by ravan-fashion-service-worker.js issue
LegacyRequests ==
  { [url |-> "/assets/app.css",           mode |-> "no-cors", accept |-> "*/*"],
    [url |-> "/assets/product-images.js", mode |-> "no-cors", accept |-> "*/*"],
    [url |-> "/files/kolam-pattern.svg",  mode |-> "no-cors", accept |-> "*/*"],
    [url |-> "/files/hero.png",           mode |-> "no-cors", accept |-> "*/*"],
    [url |-> "https://fonts.gstatic.com/s/notosanstamil/v15/nEKhbZ7WJw0q8sY7zBm2m3q0uA.woff2",
     mode |-> "cors", accept |-> "*/*"] }

\* the branch the fetch listener takes; "none" when it returns without respondWith
legacyClass(request) ==
  LET url      == Href(request.url)
      hostname == Hostname(request.url)
  IN  IF ~ StartsWith(url, Chars("http")) THEN "none"
      ELSE IF Includes(url, Chars("/assets/")) THEN "asset"
      ELSE IF \/ Includes(url, Chars("/files/"))
              \/ Includes(hostname, Chars("cdn.shopify.com")) THEN "image"
      ELSE IF \/ Includes(hostname, Chars("fonts.googleapis.com"))
              \/ Includes(hostname, Chars("fonts.gstatic.com")) THEN "font"
      ELSE "other"

LegacyClassTable == [r \in LegacyRequests |-> legacyClass(r)]

\* the handler's promise rejects: `throw error` in the catch block
Thrown == [type |-> "thrown"]

\* new Response('<svg ...>', {headers: {'Content-Type': 'image/svg+xml'}})
PlaceholderSvg ==
  [type |-> "response", url |-> "", status |-> 200, date |-> NoDate, body |-> 1]

\* new Response('', {status: 200})
EmptyFont ==
  [type |-> "response", url |-> "", status |-> 200, date |-> NoDate, body |-> 0]

\* `age < limit` of the handlers; new Date(null) of a response without a Date
\* header is the epoch, its age is beyond every limit
LegacyFresh(response, limit) ==
  /\ response.date # NoDate
  /\ now - response.date < limit

\* no freshness test: handleFontRequest returns what it finds
NeverStale == -1

\* a cache-first handler up to its first await of the network: the cache is opened
\* and looked up; a fresh hit is returned, a stale hit is returned and revalidated
\* in the background, a miss waits for the network
legacyCacheFirst(handler, request, cacheName, limit) ==
  LET cached == Match(cacheName, request.url)
      fresh  == cached # Undefined /\ (limit = NeverStale \/ LegacyFresh(cached, limit))
  IN  /\ exists' = exists \cup {cacheName}
      /\ entries' = entries
      /\ IF cached # Undefined
           THEN IF fresh
                  THEN UNCHANGED << nfetch, tasks >>
                  ELSE Spawn("revalidate", request, cacheName, cached, FALSE)
           ELSE Spawn(handler, request, cacheName, cached, TRUE)
      /\ last' = [op |-> "fetch", strategy |-> handler, req |-> request,
                  cacheName |-> cacheName, cached |-> cached,
                  fetches |-> nfetch' - nfetch, opened |-> {cacheName},
                  delivered |-> IF cached # Undefined THEN cached ELSE Pending]

handleAssetRequest(request) ==
  legacyCacheFirst("handleAssetRequest", request, RAVAN_FASHION_CACHE, 24 * 60 * 60)

handleImageRequest(request) ==
  legacyCacheFirst("handleImageRequest", request, IMAGE_CACHE, 7 * 24 * 60 * 60)

handleFontRequest(request) ==
  legacyCacheFirst("handleFontRequest", request, FONT_CACHE, NeverStale)

\* the fetch listener of ravan-fashion-service-worker.js
legacyFetch(request) ==
  LET class == LegacyClassTable[request]
  IN  CASE class = "asset" -> handleAssetRequest(request)
        [] class = "image" -> handleImageRequest(request)
        [] class = "font"  -> handleFontRequest(request)

\* the order of the caches.open calls of a handler and of its catch block
legacyOpens == << RAVAN_FASHION_CACHE, IMAGE_CACHE, FONT_CACHE, CRITICAL_CACHE >>

\* a fetch event reaches the activated worker
LegacyFetchEvent ==
  /\ script = "legacy"
  /\ lifecycle = "activated"
  /\ nreq < MaxRequests
  /\ MoreEvents
  /\ nreq' = nreq + 1
  /\ \E request \in LegacyRequests :
       /\ LegacyClassTable[request] \in {"asset", "image", "font"}
       /\ legacyFetch(request)
  /\ keysOrder' = Created(keysOrder, exists', legacyOpens)
  /\ UNCHANGED << now, ticks, nmsg, lastPut, settledOk, handled, faulty, page >>
  /\ UNCHANGED lifecycleVars

\* the catch block of a handler: what it returns or throws, and the cache it opens
legacyFallback(t) ==
  LET url == Href(t.req.url)
  IN  CASE t.kind = "handleAssetRequest" ->
             IF Includes(url, Chars(".css"))
               THEN [value  |-> Match(CRITICAL_CACHE, "/assets/ravan-fashion-critical.css"),
                     opened |-> {CRITICAL_CACHE}]
               ELSE [value |-> Thrown, opened |-> {}]
        [] t.kind = "handleImageRequest" ->
             IF Includes(url, Chars("kolam")) \/ Includes(url, Chars("temple"))
               THEN [value |-> PlaceholderSvg, opened |-> {}]
               ELSE [value |-> Thrown, opened |-> {}]
        [] OTHER -> [value |-> EmptyFont, opened |-> {}]

\* the network answers a fetch of a handler: an ok response is put through the
\* Cache object the handler opened (the put is not awaited) and returned, a non-ok
\* one returned as it is, a rejection runs the catch block; the background
\* revalidation only puts
legacySettled(t, outcome, network) ==
  LET fallback == legacyFallback(t)
      caught   == outcome = "reject" /\ t.kind # "revalidate"
  IN  /\ entries' = IF outcome = "ok" /\ t.live
                      THEN Put(entries, t.cacheName, t.req.url, network) ELSE entries
      /\ exists' = IF caught THEN exists \cup fallback.opened ELSE exists
      /\ last' = Settled(t, outcome, network,
                         IF t.kind = "revalidate" THEN NotDelivered
                         ELSE IF caught THEN fallback.value ELSE network,
                         IF caught THEN fallback.opened ELSE {})

LegacySettle ==
  /\ script = "legacy"
  /\ \E t \in tasks, outcome \in {"ok", "notok", "reject"} :
       LET network == IF outcome = "reject" THEN Undefined
                      ELSE NetworkResponse(t.req.url,
                                           IF outcome = "notok" THEN 404 ELSE 200,
                                           IF t.req.url \in DatelessUrls THEN NoDate ELSE now,
                                           t.fid)
       IN  /\ tasks' = tasks \ {t}
           /\ legacySettled(t, outcome, network)
           /\ keysOrder' = Created(keysOrder, exists', legacyOpens)
           /\ lastPut' = IF outcome = "ok" /\ t.live
                           THEN Put(lastPut, t.cacheName, t.req.url, network) ELSE lastPut
           /\ settledOk' = IF outcome = "ok"
                             THEN settledOk \cup {[name |-> t.cacheName, url |-> t.req.url]}
                             ELSE settledOk
  /\ UNCHANGED << now, ticks, nreq, nfetch, nmsg, handled, faulty, page >>
  /\ UNCHANGED lifecycleVars

\* the message listener, type CLEAN_CACHE: every cache whose name starts with
\* ravan-fashion- is deleted; the Cache objects the handlers in flight hold no
\* longer back a name
cleanCache ==
  /\ script = "legacy"
  /\ lifecycle = "activated"
  /\ nmsg < MaxMessages
  /\ MoreEvents
  /\ nmsg' = nmsg + 1
  /\ LET doomed == {n \in exists : StartsWith(Chars(n), Chars("ravan-fashion-"))}
     IN  /\ exists' = exists \ doomed
         /\ keysOrder' = Created(keysOrder, exists', << >>)
         /\ entries' = {e \in entries : e.name \notin doomed}
         /\ lastPut' = {e \in lastPut : e.name \notin doomed}
         /\ tasks' = {IF t.cacheName \in doomed THEN [t EXCEPT !.live = FALSE] ELSE t :
                        t \in tasks}
         /\ last' = [op |-> "message", type |-> "CLEAN_CACHE", deleted |-> doomed]
  /\ UNCHANGED << now, ticks, nreq, nfetch, settledOk, handled, faulty, page >>
  /\ UNCHANGED lifecycleVars

\* syncUrls of syncCulturalContent
syncUrls == {"/api/cultural-stories", "/api/cultural-elements", "/api/featured-collections"}

\* syncCulturalContent: the three URLs are fetched; answered is the set of those
\* whose response is ok.  For each of them `caches.open(RAVAN_FASHION_CACHE)` is
\* called, which creates the cache, and its result, a promise, is used as the
\* cache: `cache.put` is not a function, the callback throws, nothing is stored.
\* The rejection of Promise.all is caught and logged
syncCulturalContent(tag, answered) ==
  LET opened == IF answered # {} THEN {RAVAN_FASHION_CACHE} ELSE {}
  IN  /\ exists' = exists \cup opened
      /\ keysOrder' = Created(keysOrder, exists', legacyOpens)
      /\ entries' = entries
      /\ last' = [op |-> "sync", tag |-> tag, answered |-> answered,
                  result |-> "resolved", opened |-> opened]

\* the sync listener: a tag other than cultural-content-sync is not handled
SyncEvent ==
  /\ script = "legacy"
  /\ lifecycle = "activated"
  /\ \E tag \in {"cultural-content-sync", "cart-sync"} :
       IF tag = "cultural-content-sync"
         THEN \E answered \in SUBSET syncUrls : syncCulturalContent(tag, answered)
         ELSE /\ UNCHANGED << exists, keysOrder, entries >>
              /\ last' = [op |-> "sync", tag |-> tag, answered |-> {},
                          result |-> "ignored", opened |-> {}]
  /\ UNCHANGED << now, ticks, nreq, nfetch, nmsg, tasks, lastPut, settledOk, handled,
                  faulty, page >>
  /\ UNCHANGED lifecycleVars

\* the activated worker of ravan-fashion-service-worker.js: install stored both
\* manifests
InitLegacy ==
  /\ script = "legacy"
  /\ lifecycle = "activated"
  /\ claimed = TRUE
  /\ exists = {CRITICAL_CACHE, IMAGE_CACHE}
  /\ keysOrder = << CRITICAL_CACHE, IMAGE_CACHE >>
  /\ entries = AddAll(AddAll({}, CRITICAL_CACHE, CRITICAL_ASSETS), IMAGE_CACHE, CULTURAL_IMAGES)
  /\ precacheFetch = [ok |-> CRITICAL_ASSETS \cup CULTURAL_IMAGES, failed |-> {}]
  /\ toDelete = {}
  /\ precacheIdx = 0
  /\ atActivate = [names |-> exists, entries |-> entries]
  /\ deleted = {}
  /\ lastPut = entries
  /\ ServeIdle

NextLegacy ==
  \/ LegacyFetchEvent
  \/ LegacySettle
  \/ cleanCache
  \/ SyncEvent
  \/ Tick

SpecLegacy == InitLegacy /\ [][NextLegacy]_vars

(* ---------------------------------------------------------------------- *)
(* Every operation that writes a cache entry: the strategies, the          *)
(* background refresh and the CACHE_URL message                            *)
(* ---------------------------------------------------------------------- *)
\* a page posts CACHE_URL while the worker awaits no fetch; fetch events may follow
\* while the fetch of cacheUrl is in flight
CacheUrlWhenIdle ==
  /\ tasks = {}
  /\ CacheUrlDefaultMessage

NextWrites ==
  \/ FetchEvent
  \/ Settle
  \/ CacheUrlWhenIdle
  \/ Tick

SpecWrites == Init /\ [][NextWrites]_vars

(* ---------------------------------------------------------------------- *)
(* The page script: registration                                           *)
(* (service-worker-registration-optimized.js)                              *)
(* ---------------------------------------------------------------------- *)
\* worker.scriptURL of the two worker scripts of the theme
OptimizedScriptURL == "https://shop.example/assets/optimized/service-worker-optimized.js"
LegacyScriptURL == "https://shop.example/assets/ravan-fashion-service-worker.js"
ScriptURLs == {OptimizedScriptURL, LegacyScriptURL}

\* an empty slot of a registration, an unset field of the page object
Null == [type |-> "null"]

\* a ServiceWorkerRegistration whose worker, of the given script, is in the given
\* slot; unregistered: unregister() has been called on it
Registration(scriptURL, state) ==
  [installing |-> IF state = "installing" THEN [scriptURL |-> scriptURL] ELSE Null,
   waiting |-> IF state = "waiting" THEN [scriptURL |-> scriptURL] ELSE Null,
   active |-> IF state = "active" THEN [scriptURL |-> scriptURL] ELSE Null,
   unregistered |-> FALSE]

\* the registrations the page finds when getRegistrations resolves: a worker found
\* installing is found waiting when it has moved on before the loop starts
Registrations == {Registration(u, st) : u \in ScriptURLs, st \in {"installing", "active"}}

\* the worker of a registration
WorkerOf(r) ==
  IF r.installing # Null THEN r.installing
  ELSE IF r.waiting # Null THEN r.waiting ELSE r.active

\* everything but the page
workerVars == << script, lifecycle, claimed, exists, keysOrder, entries, toDelete,
                 precacheIdx, precacheFetch, atActivate, deleted, now, ticks, nreq,
                 nfetch, nmsg, tasks, last, lastPut, settledOk, handled, faulty >>

\* one iteration of the loop of unregisterOldServiceWorkers over the array that
\* getRegistrations resolved with: a registration with an active worker of the
\* optimized script is skipped, any other is unregistered
unregisterOldServiceWorkers ==
  /\ page.script = "registration"
  /\ page.i <= Len(page.registrations)
  /\ LET registration == page.registrations[page.i]
     IN  page' =
           IF /\ registration.active # Null
              /\ Includes(Chars(registration.active.scriptURL),
                          Chars("service-worker-optimized.js"))
             THEN [page EXCEPT !.i = @ + 1]
             ELSE [page EXCEPT !.i = @ + 1,
                               !.registrations[page.i].unregistered = TRUE]
  /\ UNCHANGED workerVars

\* the browser moves the worker of a registration on, between two awaits of the
\* page: installing to waiting, waiting to active
WorkerAdvances ==
  /\ page.script = "registration"
  /\ \E k \in 1..Len(page.registrations) :
       LET r == page.registrations[k]
       IN  /\ ~ r.unregistered
           /\ r.active = Null
           /\ page' = [page EXCEPT !.registrations[k] =
                         IF r.installing # Null
                           THEN [r EXCEPT !.installing = Null, !.waiting = r.installing]
                           ELSE [r EXCEPT !.waiting = Null, !.active = r.waiting]]
  /\ UNCHANGED workerVars

\* registerServiceWorker after the loop: register() resolves with the registration
\* of the optimized script that is there, or with a new one
registerServiceWorker ==
  /\ page.script = "registration"
  /\ page.i > Len(page.registrations)
  /\ page.registration = Null
  /\ LET kept == {k \in 1..Len(page.registrations) :
                    /\ ~ page.registrations[k].unregistered
                    /\ WorkerOf(page.registrations[k]).scriptURL = OptimizedScriptURL}
     IN  page' = [page EXCEPT !.registration =
                    IF kept # {}
                      THEN page.registrations[CHOOSE k \in kept : \A j \in kept : k <= j]
                      ELSE Registration(OptimizedScriptURL, "installing")]
  /\ UNCHANGED workerVars

\* the sequences over S of length n at most
SeqUpTo(S, n) == UNION {[1..m -> S] : m \in 0..n}

\* the page loads: getRegistrations resolves with the registrations of the origin
InitRegistration ==
  /\ script = "optimized"
  /\ lifecycle = "parsed"
  /\ claimed = FALSE
  /\ exists = {}
  /\ keysOrder = << >>
  /\ entries = {}
  /\ toDelete = {}
  /\ precacheIdx = 0
  /\ precacheFetch = [ok |-> {}, failed |-> {}]
  /\ atActivate = [names |-> {}, entries |-> {}]
  /\ deleted = {}
  /\ lastPut = {}
  /\ now = 0 /\ ticks = 0 /\ nreq = 0 /\ nfetch = 0 /\ nmsg = 0
  /\ tasks = {}
  /\ last = [op |-> "none"]
  /\ settledOk = {}
  /\ handled = << >>
  /\ faulty = NoFault
  /\ \E registrations \in SeqUpTo(Registrations, MaxRegistrations) :
       page = [script |-> "registration", registrations |-> registrations, i |-> 1,
               registration |-> Null]

NextRegistration ==
  \/ unregisterOldServiceWorkers
  \/ WorkerAdvances
  \/ registerServiceWorker

SpecRegistration == InitRegistration /\ [][NextRegistration]_vars

(* ---------------------------------------------------------------------- *)
(* The page script: cache statistics and cleanup                           *)
(* (service-worker-registration-optimized.js against                       *)
(*  service-worker-optimized.js)                                           *)
(* ---------------------------------------------------------------------- *)
MB == 1024 * 1024

\* checkCacheHealth: const maxSize = 50 * 1024 * 1024
maxSize == 50 * MB

\* what the caches of the worker may hold when the page asks: cache, URL, body length
WarmPool ==
  { << IMAGES, "/files/hero.png", 30 * MB >>,
    << API, "/api/cart", 30 * MB >>,
    << RUNTIME, "/data/feed.json", 60 * MB >> }

Warm(pool) ==
  {[name |-> w[1], url |-> w[2], response |-> NetworkResponse(w[2], 200, 0, w[3])] :
     w \in pool}

\* the calls of the cache storage that may reject: none, caches.open of the image
\* cache, cache.keys() of the API cache, the body of one response
FaultPool ==
  { NoFault,
    [open |-> {IMAGES}, keys |-> {}, body |-> {}],
    [open |-> {}, keys |-> {API}, body |-> {}],
    [open |-> {}, keys |-> {}, body |-> {"/data/feed.json"}] }

\* the statistics no worker was asked for: {}
EmptyStats == [name \in {} |-> [count |-> 0, size |-> 0]]

\* checkCacheHealth: Object.values(stats).reduce((sum, cache) => sum + cache.size, 0)
totalSize(stats) == Sum([name \in DOMAIN stats |-> stats[name].size])

\* checkCacheHealth: whether cleanupCache is called
checkCacheHealth(stats) == totalSize(stats) > maxSize

\* the promise of getCacheStats: not created, waiting for port1, resolved
NoPromise == [state |-> "none"]
PendingPromise == [state |-> "pending"]
ResolvedPromise(value) == [state |-> "resolved", value |-> value]

\* sendMessageToServiceWorker: posted only when this.registration.active is set
sendMessageToServiceWorker(p, type) ==
  IF p.active THEN [p EXCEPT !.posted = Append(@, type)] ELSE p

\* everything but the page and the clock
workerVarsButClock == << script, lifecycle, claimed, exists, keysOrder, entries, toDelete,
                         precacheIdx, precacheFetch, atActivate, deleted, nreq,
                         nfetch, nmsg, tasks, last, lastPut, settledOk, handled, faulty >>

\* registerServiceWorker has resolved and the worker is active: this.registration
\* and this.registration.active are set from now on
RegistrationActive ==
  /\ page.script = "registration"
  /\ ~ page.active
  /\ page' = [page EXCEPT !.active = TRUE]
  /\ UNCHANGED workerVars

\* monitorCacheSize up to its await: getCacheStats creates the promise, posts
\* GET_CACHE_STATS with port2 when there is an active worker and resolves the
\* promise with {} when there is none
monitorCacheSize ==
  /\ page.script = "registration"
  /\ page.promise = NoPromise
  /\ page.calls < MaxStatsCalls
  /\ page' = IF page.active
               THEN [page EXCEPT !.calls = @ + 1,
                                 !.promise = PendingPromise,
                                 !.posted = Append(@, "GET_CACHE_STATS")]
               ELSE [page EXCEPT !.calls = @ + 1,
                                 !.promise = ResolvedPromise(EmptyStats)]
  /\ UNCHANGED workerVars

\* the worker handles the message the page posted first: message(event); a reply
\* posted on event.ports[0] travels to port1
WorkerReceives ==
  /\ page.script = "registration"
  /\ page.posted # << >>
  /\ script = "optimized"
  /\ lifecycle = "activated"
  /\ nmsg' = nmsg + 1
  /\ LET type  == Head(page.posted)
         event == EventOf(type, "no data", "", "",
                          IF type = "GET_CACHE_STATS" THEN 1 ELSE 0)
     IN  /\ message(event)
         /\ page' = [page EXCEPT !.posted = Tail(@),
                                 !.port1 = IF last'.reply # NoReply
                                             THEN Append(@, last'.reply) ELSE @]
  /\ UNCHANGED << now, ticks, nreq, settledOk, faulty >>
  /\ UNCHANGED lifecycleVars

\* messageChannel.port1.onmessage: resolve(event.data.data)
PortMessage ==
  /\ page.script = "registration"
  /\ page.port1 # << >>
  /\ page' = [page EXCEPT !.port1 = Tail(@),
                          !.promise = ResolvedPromise(Head(page.port1).data)]
  /\ UNCHANGED workerVars

\* monitorCacheSize after its await: handleCacheStats(stats), checkCacheHealth,
\* cleanupCache when the sizes add up to more than maxSize
handleCacheStats ==
  /\ page.script = "registration"
  /\ page.promise.state = "resolved"
  /\ LET stats   == page.promise.value
         cleanup == checkCacheHealth(stats)
         p       == [page EXCEPT !.promise = NoPromise,
                                 !.reports = Append(@, [stats |-> stats,
                                                        total |-> totalSize(stats),
                                                        cleanup |-> cleanup /\ page.active])]
     IN  page' = IF cleanup THEN sendMessageToServiceWorker(p, "CLEANUP_CACHE") ELSE p
  /\ UNCHANGED workerVars

\* the interval of setupCacheManagement fires after a day: cleanupCache
DailyCleanup ==
  /\ page.script = "registration"
  /\ ticks < MaxTicks
  /\ ticks' = ticks + 1
  /\ now' = now + DAY
  /\ page' = sendMessageToServiceWorker(page, "CLEANUP_CACHE")
  /\ UNCHANGED workerVarsButClock

\* the page has loaded: init() has run, registerServiceWorker has not resolved yet;
\* the activated worker holds its precache and what earlier visits left
InitPage ==
  /\ script = "optimized"
  /\ lifecycle = "activated"
  /\ claimed = TRUE
  /\ \E pool \in SUBSET WarmPool :
       /\ entries = AddAll({}, STATIC, PrecacheSet) \cup Warm(pool)
       /\ exists = {STATIC} \cup {w[1] : w \in pool}
  /\ keysOrder = Created(<< >>, exists, getCacheStatsOpens)
  /\ precacheFetch = [ok |-> PrecacheSet, failed |-> {}]
  /\ toDelete = {}
  /\ precacheIdx = 0
  /\ atActivate = [names |-> {STATIC}, entries |-> AddAll({}, STATIC, PrecacheSet)]
  /\ deleted = {}
  /\ lastPut = entries
  /\ now = 0 /\ ticks = 0 /\ nreq = 0 /\ nfetch = 0 /\ nmsg = 0
  /\ tasks = {}
  /\ last = [op |-> "none"]
  /\ settledOk = {}
  /\ handled = << >>
  /\ faulty \in FaultPool
  /\ page = [script |-> "registration", active |-> FALSE, calls |-> 0,
             promise |-> NoPromise, posted |-> << >>, port1 |-> << >>,
             reports |-> << >>]

NextPage ==
  \/ RegistrationActive
  \/ monitorCacheSize
  \/ WorkerReceives
  \/ PortMessage
  \/ handleCacheStats
  \/ DailyCleanup

SpecPage == InitPage /\ [][NextPage]_vars

\* the statistics round trip alone; the worker handles every message posted to it
\* and the port delivers every reply
NextStats ==
  \/ RegistrationActive
  \/ monitorCacheSize
  \/ WorkerReceives
  \/ PortMessage
  \/ handleCacheStats

SpecPageLive ==
  InitPage /\ [][NextStats]_vars /\ WF_vars(WorkerReceives) /\ WF_vars(PortMessage)

(* ---------------------------------------------------------------------- *)
(* Properties                                                              *)
(* ---------------------------------------------------------------------- *)
\* the step just taken handed a value to respondWith
Delivers == last.op \in {"fetch", "settle"} /\ last.delivered.type \in {"response", "undefined"}

\* the step just taken is the lookup of a cache-first request that found a dated entry
CacheFirstHit ==
  /\ last.op = "fetch"
  /\ last.strategy = "cacheFirst"
  /\ last.cached # Undefined
  /\ last.cached.date # NoDate

\* age of the entry a cache-first lookup found
HitAge == now - last.cached.date

\* C1: whatever the resource class, the cache content and the outcome of the
\* network, the value handed to respondWith is a response object, never undefined.
C1_AlwaysAResponse ==
  Delivers => IsResponse(last.delivered)

\* C2: a cache-first request that finds an entry younger than the expiry of its
\* resource class (static 7 days, images 30 days) gets the cached response and
\* issues no fetch at all.
C2_FreshEntryNoFetch ==
  (CacheFirstHit /\ HitAge < ExpiryOfClass(ClassTable[last.req]))
    => /\ last.delivered = last.cached
       /\ last.fetches = 0

\* C3: a cache-first request that finds an entry older than the expiry of its
\* resource class gets the stale response at once, and exactly one background
\* fetch (updateCache) is issued for the request.
C3_StaleEntryOneBackgroundFetch ==
  (CacheFirstHit /\ HitAge > ExpiryOfClass(ClassTable[last.req]))
    => /\ last.delivered = last.cached
       /\ last.fetches = 1
       /\ \E t \in tasks : /\ t.kind = "updateCache"
                           /\ t.req = last.req
                           /\ t.fid = nfetch

\* the step just taken is the continuation of a strategy after its fetch
SettledAs(strategy) == last.op = "settle" /\ last.strategy = strategy

\* the step just taken is the lookup of a request by a strategy
FetchedAs(strategy) == last.op = "fetch" /\ last.strategy = strategy

\* the key (cache, URL) of the request of the step just taken
LastKey == [name |-> last.cacheName, url |-> last.req.url]

\* C4 as stated: a static cache-first miss whose fetch succeeds stores the network
\* response in the static cache and returns it, and a following request for the
\* same URL is a cache hit.
C4_MissStoredThenHit ==
  /\ (SettledAs("cacheFirst") /\ last.cacheName = STATIC /\ last.outcome = "ok")
       => /\ last.delivered = last.network
          /\ Match(STATIC, last.req.url) = last.network
  /\ (FetchedAs("cacheFirst") /\ last.cacheName = STATIC /\ LastKey \in settledOk)
       => last.cached # Undefined

\* C4 amended: the miss returns the network response, and stores it in the static
\* cache unless that cache was deleted between the lookup and the answer of the
\* network; a following request is a hit on the response most recently stored,
\* as long as the static cache was not deleted in between.
C4_MissStoredThenHitUnlessDeleted ==
  /\ (SettledAs("cacheFirst") /\ last.cacheName = STATIC /\ last.outcome = "ok")
       => /\ last.delivered = last.network
          /\ last.live => Match(STATIC, last.req.url) = last.network
  /\ (FetchedAs("cacheFirst") /\ last.cacheName = STATIC
        /\ Lookup(lastPut, STATIC, last.req.url) # Undefined)
       => /\ last.cached = Lookup(lastPut, STATIC, last.req.url)
          /\ last.delivered = last.cached

\* a static request hits the entry that an earlier miss fetched from the network
C4_Witness ==
  /\ FetchedAs("cacheFirst")
  /\ last.cacheName = STATIC
  /\ LastKey \in settledOk
  /\ last.cached # Undefined
  /\ last.cached.body > 0
  /\ last.delivered = last.cached

\* C5: network-first with a failed fetch returns the cached response when the
\* named cache holds one, and otherwise a non-2xx placeholder: the offline page
\* for a navigation request, a 503 response for any other.
C5_NetworkFirstFallback ==
  (SettledAs("networkFirst") /\ last.outcome = "reject")
    => IF Match(last.cacheName, last.req.url) # Undefined
         THEN last.delivered = Match(last.cacheName, last.req.url)
         ELSE /\ IsResponse(last.delivered)
              /\ ~ Ok(last.delivered)
              /\ IF last.req.mode = "navigate"
                   THEN last.delivered.url = "/offline.html"
                   ELSE last.delivered.status = 503

\* C6: once a network-first request for a URL stored an ok response, a later
\* network-first request for it whose fetch fails returns the response most
\* recently stored for the URL, whatever its age, as long as the cache was not
\* cleared in between.
C6_NetworkFirstServesLastStored ==
  (SettledAs("networkFirst") /\ last.outcome = "reject"
     /\ Lookup(lastPut, last.cacheName, last.req.url) # Undefined)
    => /\ last.delivered = Lookup(lastPut, last.cacheName, last.req.url)
       /\ IsResponse(last.delivered)
       /\ last.delivered.url = last.req.url

\* the network is down and the entry served is older than the api expiry
C6_Witness ==
  /\ SettledAs("networkFirst")
  /\ last.outcome = "reject"
  /\ LastKey \in settledOk
  /\ IsResponse(last.delivered)
  /\ last.delivered.body > 0
  /\ now - last.delivered.date > EXPIRY_API

\* C7 as stated: a stale-while-revalidate request that finds an entry returns it and
\* starts a fetch; when the network answers (with a 2xx response) the entry of the
\* request holds the network response.
C7_RevalidateReplacesEntry ==
  /\ (FetchedAs("staleWhileRevalidate") /\ last.cached # Undefined)
       => /\ last.delivered = last.cached
          /\ last.fetches = 1
  /\ (SettledAs("staleWhileRevalidate") /\ last.cached # Undefined /\ last.outcome = "ok")
       => Match(last.cacheName, last.req.url) = last.network

\* C7 amended: the same, with the entry replaced unless the pages cache was deleted
\* between the lookup and the answer of the network; the next request returns the
\* response most recently stored.
C7_RevalidateReplacesEntryUnlessDeleted ==
  /\ (FetchedAs("staleWhileRevalidate") /\ last.cached # Undefined)
       => /\ last.delivered = last.cached
          /\ last.fetches = 1
          /\ \E t \in tasks : t.kind = "staleWhileRevalidate" /\ t.req = last.req /\ ~ t.fg
  /\ (SettledAs("staleWhileRevalidate") /\ last.cached # Undefined /\ last.outcome = "ok"
        /\ last.live)
       => Match(last.cacheName, last.req.url) = last.network
  /\ (FetchedAs("staleWhileRevalidate")
        /\ Lookup(lastPut, last.cacheName, last.req.url) # Undefined)
       => last.delivered = Lookup(lastPut, last.cacheName, last.req.url)

\* the revalidation of a page that was served from the cache replaced its entry
C7_Witness ==
  /\ SettledAs("staleWhileRevalidate")
  /\ last.cached # Undefined
  /\ last.outcome = "ok"
  /\ last.live
  /\ Match(last.cacheName, last.req.url) = last.network
  /\ last.network # last.cached

\* the entries of the named cache
EntriesOf(en, name) == {e \in en : e.name = name}

\* the name follows <app>-<class>-v<version> with the current version tag
CarriesCurrentTag(name) ==
  /\ StartsWith(Chars(name), Chars("ravan-fashion-"))
  /\ EndsWith(Chars(name), Chars("-v1"))

\* a cache that was present when activate ran is still there with the entries it had
Preserved(name) ==
  /\ name \in exists
  /\ EntriesOf(entries, name) = EntriesOf(atActivate.entries, name)

OwnCaches == IF script = "optimized" THEN currentCaches ELSE legacyCaches

\* C9: activate never deletes, nor asks to delete, a cache the running script uses,
\* whatever other caches exist, and what install precached is still there during
\* and after activation.
C9_OwnCachesSurviveActivate ==
  /\ deleted \cap OwnCaches = {}
  /\ toDelete \cap OwnCaches = {}
  /\ lifecycle \in {"activating", "activated"}
       => \A e \in atActivate.entries : e.name \in OwnCaches => e \in entries

\* the legacy worker activated among old caches, its precached entries in place
C9_Witness ==
  /\ lifecycle = "activated"
  /\ script = "legacy"
  /\ deleted # {}
  /\ \A u \in CRITICAL_ASSETS : Lookup(entries, CRITICAL_CACHE, u) = Precached(u)
  /\ \A u \in CULTURAL_IMAGES : Lookup(entries, IMAGE_CACHE, u) = Precached(u)

\* C10: whatever subset of the manifest fails to fetch, install of
\* service-worker-optimized.js is never failed, the retry loop can always go on,
\* and once install is complete every manifest URL whose last fetch succeeded is
\* in the static cache.
C10_PrecacheToleratesFailures ==
  script = "optimized"
    => /\ lifecycle # "redundant"
       /\ lifecycle = "installing" => precacheIdx \in 1..Len(precacheUrls)
       /\ lifecycle \in {"installed", "activating", "activated"}
            => /\ precacheFetch.ok \cup precacheFetch.failed = PrecacheSet
               /\ \A u \in precacheFetch.ok : Lookup(entries, STATIC, u) = Precached(u)

\* install completed although exactly one manifest URL failed, the other five cached
C10_Witness ==
  /\ script = "optimized"
  /\ lifecycle = "installed"
  /\ Cardinality(precacheFetch.failed) = 1
  /\ \A u \in PrecacheSet \ precacheFetch.failed : Lookup(entries, STATIC, u) = Precached(u)
  /\ \A u \in precacheFetch.failed : Lookup(entries, STATIC, u) = Undefined

\* the named cache of the legacy script a manifest URL is precached into
LegacyCacheOf(u) == IF u \in CRITICAL_ASSETS THEN CRITICAL_CACHE ELSE IMAGE_CACHE

\* C11: install of ravan-fashion-service-worker.js does not fail when a URL of
\* CRITICAL_ASSETS or CULTURAL_IMAGES fails to fetch: the promise given to
\* waitUntil resolves (the worker is not made redundant) and every URL that did
\* fetch is in its cache
C11_LegacyInstallToleratesFailures ==
  (script = "legacy" /\ lifecycle # "parsed" /\ precacheFetch.failed # {}) =>
    /\ lifecycle # "redundant"
    /\ \A u \in precacheFetch.ok : Lookup(entries, LegacyCacheOf(u), u) # Undefined


\* the classes in the order their predicates are tested
ClassOrder == << "static", "image", "api", "page", "other" >>

\* the predicates a request satisfies, by position in ClassOrder; the last always holds
Holding(r) ==
  << isStaticAsset(r), isImageRequest(r), isAPIRequest(r), isPageRequest(r), TRUE >>

\* C12: classification maps every request to exactly one class, that of the first
\* predicate that holds in the order isStaticAsset, isImageRequest, isAPIRequest,
\* isPageRequest, else other; it is a function of the request and changes no state
C12_ClassifiedByFirstPredicate ==
  last.op = "classify" =>
    /\ \E k \in 1..5 :
         /\ last.class = ClassOrder[k]
         /\ Holding(last.req)[k]
         /\ \A j \in 1..(k - 1) : ~ Holding(last.req)[j]
    /\ exists = {STATIC} /\ entries = AddAll({}, STATIC, PrecacheSet)
    /\ tasks = {} /\ nfetch = 0 /\ claimed /\ lifecycle = "activated"

\* a navigation to /search (API and page predicates both hold) was classified api,
\* and a .js file under /api/ static
C12_Witness ==
  /\ last.op = "classify"
  /\ last.req.url = "/search?q=silk" /\ last.req.mode = "navigate"
  /\ isAPIRequest(last.req) /\ isPageRequest(last.req)
  /\ last.class = "api"
  /\ Classify([url |-> "/api/client.js", mode |-> "cors", accept |-> "*/*"]) = "static"


\* C13: the promise returned by message(event) never rejects, whatever the type
\* and payload of the message and whatever fails inside the operation
C13_MessageNeverRejects ==
  \A i \in 1..Len(handled) : handled[i].result # "rejected"

\* the message types the switch of message has a case for
KnownTypes == {"SKIP_WAITING", "CACHE_URL", "CLEAR_CACHE", "GET_CACHE_STATS", "SYNC_NOW"}

\* handling i + 1 of the log repeats handling i: the same message, begun when
\* handling i was complete and complete before anything else was handled, with
\* the network answering both alike
Repeats(i) ==
  LET a == handled[i]
      b == handled[i + 1]
  IN  /\ a.event = b.event
      /\ a.result # "pending" /\ b.result # "pending"
      /\ b.quiet /\ b.pre = a.post
      /\ i + 2 <= Len(handled) => handled[i + 2].quiet
      /\ a.outcome = b.outcome /\ a.network = b.network

\* C14: handling the same control message twice in a row, with an unchanging
\* network, leaves the caches and their entries as handling it once did, and
\* GET_CACHE_STATS replies with the same statistics both times
C14_ControlOperationsIdempotent ==
  \A i \in 1..(Len(handled) - 1) :
    Repeats(i) => /\ handled[i + 1].post = handled[i].post
                  /\ handled[i + 1].reply = handled[i].reply

\* a CACHE_URL that changed the caches was handled twice in a row, the network
\* answering both fetches with the same ok response
C14_Witness ==
  /\ Len(handled) = 2
  /\ Repeats(1)
  /\ handled[1].event.data.type = "CACHE_URL"
  /\ handled[1].outcome = "ok"
  /\ handled[1].post # handled[1].pre

\* C15: a message of a type outside the five known ones changes nothing: no cache
\* is created, modified or deleted, no fetch is issued, no reply is posted and
\* the lifecycle state stays as it was
C15_UnknownTypeIgnored ==
  (last.op = "message" /\ last.event.data # Undefined
     /\ last.event.data.type \notin KnownTypes) =>
    /\ last.result = "resolved"
    /\ last.reply = NoReply
    /\ last.fetches = 0
    /\ handled[Len(handled)].post = handled[Len(handled)].pre
    /\ handled[Len(handled)].pre = [keys |-> keysOrder, entries |-> entries]
    /\ lifecycle = "activated" /\ claimed /\ script = "optimized"

\* a CLEANUP_CACHE message was handled while the static cache held the precache
C15_Witness ==
  /\ last.op = "message"
  /\ last.event.data # Undefined
  /\ last.event.data.type = "CLEANUP_CACHE"
  /\ Keys(entries, STATIC) = PrecacheSet

RECURSIVE SizeOfEntries(_)
\* the body sizes of a set of cache entries, added up
SizeOfEntries(es) ==
  IF es = {} THEN 0
  ELSE LET e == CHOOSE x \in es : TRUE
       IN  BlobSize(e.response) + SizeOfEntries(es \ {e})

\* C16: the statistics GET_CACHE_STATS replies with give, for each of the five
\* named caches, the number of its entries and the sum of the body sizes of the
\* responses stored in that same cache
C16_StatsCountAndSizePerCache ==
  (last.op = "message" /\ last.reply # NoReply) =>
    \A name \in currentCaches :
      LET own == {e \in entries : e.name = name}
      IN  /\ last.reply.data[name].count = Cardinality(own)
          /\ last.reply.data[name].size = SizeOfEntries(own)


\* a cache the activate handler of the running script deletes
Stale(n) == IF script = "optimized" THEN isOldCache(n) ELSE legacyIsOldCache(n)

\* C17: on activate, of either script, clients.claim() takes effect only after the
\* deletion of the stale caches has completed: the clients are never claimed
\* while a cache of a prior deployment still exists
C17_ClaimAfterCleanup ==
  claimed => \A n \in exists : ~ Stale(n)


\* the policy and the named cache the file header and CACHE_STRATEGIES give a class
PolicyOf(class) ==
  CASE class = "static" -> [strategy |-> "cacheFirst", cache |-> "ravan-fashion-static-v1"]
    [] class = "image"  -> [strategy |-> "cacheFirst", cache |-> "ravan-fashion-images-v1"]
    [] class = "api"    -> [strategy |-> "networkFirst", cache |-> "ravan-fashion-api-v1"]
    [] class = "page"   -> [strategy |-> "staleWhileRevalidate",
                            cache |-> "ravan-fashion-pages-v1"]
    [] OTHER            -> [strategy |-> "networkFirst", cache |-> "ravan-fashion-runtime-v1"]

\* the step just taken belongs to the handling of a request, by the policy of its class
ByPolicy ==
  LET policy == PolicyOf(ClassTable[last.req])
  IN  /\ \/ last.strategy = policy.strategy
         \/ last.strategy = "updateCache" /\ policy.strategy = "cacheFirst"
      /\ last.cacheName = policy.cache

\* the step just taken ran getOfflineResponse for a navigation request
OfflinePageRead ==
  /\ last.op = "settle"
  /\ last.req.mode = "navigate"
  /\ Caught(last.outcome)
  /\ \/ last.strategy = "cacheFirst"
     \/ last.strategy = "networkFirst" /\ Match(last.cacheName, last.req.url) = Undefined

C19_PutFailureNotARequestFailure ==
  (last.op = "settle" /\ last.outcome = "putfails"
     /\ last.strategy \in {"cacheFirst", "networkFirst", "staleWhileRevalidate"}
     /\ last.delivered # NotDelivered)
    => last.delivered = last.network

\* C20: a non-2xx network response is recovered through the fallback: networkFirst
\* returns the cached entry when the named cache holds one, and cacheFirst on a
\* cache miss returns the offline fallback
C20_Non2xxFallsBack ==
  /\ (SettledAs("networkFirst") /\ last.outcome = "notok"
        /\ Match(last.cacheName, last.req.url) # Undefined)
       => last.delivered = Match(last.cacheName, last.req.url)
  /\ (SettledAs("cacheFirst") /\ last.outcome = "notok")
       => last.delivered = getOfflineResponse(last.req)

\* the step just taken is the catch block of a cache-first handler of
\* ravan-fashion-service-worker.js: a cache miss, then a rejected fetch
LegacyFallback(handler) ==
  /\ last.op = "settle"
  /\ last.strategy = handler
  /\ last.cached = Undefined
  /\ last.outcome = "reject"

\* C21: on a cache miss with a failed fetch, handleAssetRequest returns the
\* critical CSS response when the URL contains .css and propagates the failure
\* otherwise, handleImageRequest returns the placeholder SVG for URLs containing
\* kolam or temple and propagates the failure otherwise, handleFontRequest returns
\* an empty 200 response; where a fallback exists the value is a response object
C21_LegacyOfflineFallback ==
  /\ LegacyFallback("handleAssetRequest") =>
       IF Includes(Href(last.req.url), Chars(".css"))
         THEN /\ IsResponse(last.delivered)
              /\ last.delivered.url = "/assets/ravan-fashion-critical.css"
         ELSE last.delivered = Thrown
  /\ LegacyFallback("handleImageRequest") =>
       IF Includes(Href(last.req.url), Chars("kolam"))
            \/ Includes(Href(last.req.url), Chars("temple"))
         THEN last.delivered = PlaceholderSvg
         ELSE last.delivered = Thrown
  /\ LegacyFallback("handleFontRequest") =>
       /\ last.delivered = EmptyFont
       /\ last.delivered.status = 200


\* C26: when the sync event with tag cultural-content-sync has been handled, every
\* one of the three URLs whose fetch returned an ok response is stored in the
\* ravan-fashion-cache-v1 cache, and the sync did not reject
C26_SyncStoresOkResponses ==
  (last.op = "sync" /\ last.tag = "cultural-content-sync") =>
    /\ last.result = "resolved"
    /\ \A u \in last.answered : Lookup(entries, RAVAN_FASHION_CACHE, u) # Undefined


\* the step just taken is the lookup of a strategy that found nothing for the
\* request (networkFirst does not look before its fetch)
Missed == last.op = "fetch" /\ last.cached = Undefined

\* the step just taken completed a request that had found nothing cached, its
\* fetch answered with an ok response
MissAnswered ==
  /\ last.op = "settle"
  /\ last.strategy \in {"cacheFirst", "networkFirst", "staleWhileRevalidate"}
  /\ last.cached = Undefined
  /\ last.outcome = "ok"

\* the entries the cache of the request of the step just taken holds for its URL
EntriesOfLastKey == {e \in entries : e.name = last.cacheName /\ e.url = last.req.url}

\* C22 as stated: requests for one URL in flight together on a cache miss are not
\* coalesced, each issues its own fetch and its own put; each resolves to its
\* network response, and after each put the cache holds exactly one entry for the
\* URL, the response of the put applied last
C22_ConcurrentMissesLastWriteWins ==
  /\ Missed =>
       /\ last.fetches = 1
       /\ \E t \in tasks : t.fid = nfetch /\ t.req = last.req /\ t.fg
       /\ \A t \in tasks : t.fid = nfetch => t.req = last.req
  /\ MissAnswered =>
       /\ last.delivered = last.network
       /\ EntriesOfLastKey = {[name |-> last.cacheName, url |-> last.req.url,
                               response |-> last.network]}

\* the put of the step just taken went to a Cache object whose cache had been
\* deleted after the request opened it
PutToDeletedCache ==
  last.strategy \in {"cacheFirst", "staleWhileRevalidate"} /\ ~ last.live

\* C22 amended: the same, unless the named cache was deleted while the request was
\* in flight: the put of a cacheFirst or staleWhileRevalidate request then goes to
\* the deleted cache and leaves the named cache as it was
C22_ConcurrentMissesLastWriteWinsUnlessDeleted ==
  /\ Missed =>
       /\ last.fetches = 1
       /\ \E t \in tasks : t.fid = nfetch /\ t.req = last.req /\ t.fg
       /\ \A t \in tasks : t.fid = nfetch => t.req = last.req
  /\ MissAnswered =>
       /\ last.delivered = last.network
       /\ IF PutToDeletedCache
            THEN Match(last.cacheName, last.req.url) = last.replaced
            ELSE EntriesOfLastKey = {[name |-> last.cacheName, url |-> last.req.url,
                                      response |-> last.network]}

\* two requests for one static URL missed and fetched; the one answered last
\* replaced the entry the other had stored, and no fetch for the URL is left
C22_Witness ==
  /\ MissAnswered
  /\ last.strategy = "cacheFirst"
  /\ last.live
  /\ last.replaced # Undefined
  /\ last.replaced # last.network
  /\ Match(last.cacheName, last.req.url) = last.network
  /\ nfetch = 2
  /\ tasks = {}


\* the step just taken is a lookup that found an entry and started a background
\* fetch: staleWhileRevalidate on a hit, cacheFirst on an expired entry
Revalidates ==
  /\ last.op = "fetch"
  /\ last.cached # Undefined
  /\ \/ last.strategy = "staleWhileRevalidate"
     \/ last.strategy = "cacheFirst" /\ isCacheExpired(last.cached, now)

\* the step just taken is the completion of a background fetch
Revalidated ==
  /\ last.op = "settle"
  /\ \/ last.strategy = "updateCache"
     \/ last.strategy = "staleWhileRevalidate" /\ last.cached # Undefined

\* C23: a cache-first request on a stale entry and a stale-while-revalidate request
\* on a hit are answered with the entry the cache held at the lookup, at the
\* lookup; the background fetch is not awaited, and its completion, ok or not,
\* hands nothing to the request
C23_RevalidationFireAndForget ==
  /\ Revalidates =>
       /\ last.delivered = last.cached
       /\ last.cached = Match(last.cacheName, last.req.url)
       /\ last.fetches = 1
       /\ \E t \in tasks : t.fid = nfetch /\ t.req = last.req /\ ~ t.fg
  /\ Revalidated => last.delivered = NotDelivered

\* the background refresh of a stale static entry completed and replaced the entry
\* that had been returned to the request
C23_Witness ==
  /\ Revalidated
  /\ last.strategy = "updateCache"
  /\ last.outcome = "ok"
  /\ last.replaced # Undefined
  /\ Match(last.cacheName, last.req.url) = last.network
  /\ last.network # last.replaced


\* the step being taken is the continuation of a fetch that rejected or was
\* answered with a non-2xx response
FailedFetch == last'.op = "settle" /\ last'.outcome \in {"notok", "reject"}

\* C27: a rejected fetch or a non-2xx response in cacheFirst, networkFirst,
\* staleWhileRevalidate, updateCache or cacheUrl writes nothing: no entry of any
\* named cache is added, replaced or removed and no cache is deleted; hence every
\* entry of every cache is an ok response
C27_OnlyOkResponsesStored ==
  /\ [][FailedFetch => (entries' = entries /\ exists \subseteq exists')]_vars
  /\ [](\A e \in entries : Ok(e.response))

\* a CACHE_URL for a URL the cache holds was answered 404: the entry is as before
C27_Witness ==
  /\ last.op = "settle"
  /\ last.strategy = "cacheUrl"
  /\ last.outcome = "notok"
  /\ last.replaced # Undefined
  /\ Match(last.cacheName, last.req.url) = last.replaced
  /\ Ok(last.replaced)


\* the entries whose response carries no Date header
Dateless(en) == {e \in en : e.response.date = NoDate}

\* the step being taken deletes the named cache
ClearsCache(name) == last'.op = "message" /\ name \notin exists'

\* the step being taken completes, with an ok response, the fetch of a cache-first
\* request that had missed entry e's key: the fetch was issued before e was stored
LateMissCompletes(e) ==
  /\ last'.op = "settle"
  /\ last'.strategy = "cacheFirst"
  /\ last'.cached = Undefined
  /\ last'.outcome = "ok"
  /\ last'.cacheName = e.name
  /\ last'.req.url = e.url

\* a cache-first lookup found an entry without a Date header: it is not expired
\* at the age it has, it is returned and no fetch is issued
DatelessServedAsFresh ==
  (FetchedAs("cacheFirst") /\ last.cached # Undefined /\ last.cached.date = NoDate) =>
    /\ ~ isCacheExpired(last.cached, now)
    /\ last.delivered = last.cached
    /\ last.fetches = 0

SettledAcrossClear == last.op = "settle" /\ ~ last.live

\* C29: a clear is not undone by work that started before it: when a fetch issued
\* before the CLEAR_CACHE of its cache completes, whichever of cacheFirst,
\* networkFirst, staleWhileRevalidate and updateCache issued it, the cache holds
\* for the URL what it held just before (nothing, unless a request issued after
\* the clear stored it): the response of the earlier request is not in the cache
C29_ClearNotUndone ==
  SettledAcrossClear => Match(last.cacheName, last.req.url) = last.replaced

\* C25: unregisterOldServiceWorkers never unregisters the current version: of the
\* registrations the loop has been through, one whose worker runs
\* service-worker-optimized.js is kept, whichever slot the worker is in
\* (installing, waiting, active), and one of another script is unregistered
C25_KeepsCurrentVersion ==
  page.script = "registration" =>
    \A k \in 1..(page.i - 1) :
      LET r == page.registrations[k]
      IN  IF WorkerOf(r).scriptURL = OptimizedScriptURL
            THEN ~ r.unregistered
            ELSE r.unregistered

\* the statistics the page received, in the order it received them
Reports == IF page.script = "registration" THEN page.reports ELSE << >>

\* C24: page-triggered cleanup: statistics that add up to more than 50 MB make
\* checkCacheHealth post the cleanup message to the active worker, and handling
\* it removes cached data: the statistics the page receives next add up to less
C24_CleanupShrinksCaches ==
  /\ \A i \in 1..Len(Reports) : Reports[i].total > maxSize => Reports[i].cleanup
  /\ \A i \in 1..(Len(Reports) - 1) :
       Reports[i].cleanup => Reports[i + 1].total < Reports[i].total

\* the step is a call of getCacheStats while there is no active worker
CallsWithoutWorker == page'.calls = page.calls + 1 /\ ~ page.active

\* the statistics the worker posted last
LastPosted ==
  LET posted == {i \in 1..Len(handled) : handled[i].reply # NoReply}
  IN  handled[CHOOSE i \in posted : \A j \in posted : j <= i].reply.data

\* a promise the page resolved from port1 holds the statistics object the worker
\* posted: an entry for every named cache, count 0 and size 0 for the caches whose
\* open or keys call failed
ResolvedWithStats ==
  (page.promise.state = "resolved" /\ page.promise.value # EmptyStats) =>
    /\ page.promise.value = LastPosted
    /\ DOMAIN page.promise.value = currentCaches
    /\ \A name \in faulty.open \cup faulty.keys :
         page.promise.value[name] = [count |-> 0, size |-> 0]

\* C30: the promise of the page's getCacheStats always completes: it is resolved
\* with {} in the call itself when there is no active worker; otherwise it is
\* eventually resolved, with the statistics the worker posted on the reply port,
\* also when opening or reading a named cache fails in the worker (count 0, size 0)
C30_StatsRequestCompletes ==
  /\ [][CallsWithoutWorker => page'.promise = ResolvedPromise(EmptyStats)]_vars
  /\ []ResolvedWithStats
  /\ (page.promise.state = "pending") ~> (page.promise.state = "resolved")

\* the page got statistics from a worker for which opening the image cache
\* fails: the images it holds are reported as count 0, size 0
C30_Witness ==
  /\ page.script = "registration"
  /\ page.promise.state = "resolved"
  /\ page.promise.value # EmptyStats
  /\ faulty.open = {IMAGES}
  /\ Keys(entries, IMAGES) # {}
  /\ page.promise.value[IMAGES] = [count |-> 0, size |-> 0]
  /\ page.promise.value[RUNTIME].count = 1

============================================================================
